---- MODULE Spec2Model ----
(***************************************************************************)
(* A model of tatianab/text-game: the engine's turn protocol               *)
(* (internal/engine/engine.go), the persistence store                      *)
(* (internal/models/persistence.go) and the interactive controller         *)
(* (internal/tui/tui.go and its later revision with the loadingTurn guard).*)
(*                                                                         *)
(* Texts on which the code computes (TrimSpace, HasPrefix, TrimPrefix,     *)
(* ToLower, ReplaceAll) are sequences of one-character strings.  A reply   *)
(* of the generator is a sequence of tokens: white space, a code fence,    *)
(* the word yaml after a fence, a word of prose, or a YAML document.       *)
(***************************************************************************)
EXTENDS Integers, Sequences, FiniteSets, TLC

VARIABLES
    session,    \* engine: the *models.GameSession handed to the engine
    call,       \* engine: the last engine call (arguments, requests, results)
    calls,      \* engine: number of engine calls made so far
    disk,       \* store: the save directory, save name -> files of the save
    loaded,     \* store: what the last LoadSession returned
    io,         \* store: the last store call (operation, name, error, result)
    saved,      \* store: save name -> session of the last Save that returned nil
    ops,        \* store: number of store calls made so far
    rev,        \* controller: the revision of package tui that runs
    m,          \* controller: the bubbletea model held by the event loop
    heap,       \* controller: the GameSession objects m.session and commands point to
    tasks,      \* controller: the commands running in goroutines
    msgs,       \* controller: messages sent to the event loop, not yet handled
    run,        \* controller: "running", "quit" or "panic"
    nextTask,   \* controller: number of commands dispatched so far
    keys        \* controller: number of keys counted so far: the lines submitted
                \* during play and the keys pressed while no input is accepted

engVars == <<session, call, calls>>

storeVars == <<disk, loaded, io, saved, ops>>

ctlVars == <<rev, m, heap, tasks, msgs, run, nextTask, keys>>

vars == <<engVars, storeVars, ctlVars>>

-----------------------------------------------------------------------------
(* Bounds *)

MaxInitHist == 9
MaxCalls == 1
MaxOps == 2
MaxKeys == 2

-----------------------------------------------------------------------------
(* Texts: package strings *)

IsSpace(c) == c \in {" ", "\n"}

RECURSIVE TrimLeftSpace(_)
TrimLeftSpace(t) ==
    IF t = <<>> THEN t
    ELSE IF IsSpace(Head(t)) THEN TrimLeftSpace(Tail(t)) ELSE t

RECURSIVE TrimRightSpace(_)
TrimRightSpace(t) ==
    IF t = <<>> THEN t
    ELSE IF IsSpace(t[Len(t)]) THEN TrimRightSpace(SubSeq(t, 1, Len(t) - 1)) ELSE t

TrimSpace(t) == TrimRightSpace(TrimLeftSpace(t))

HasPrefix(t, p) == Len(t) >= Len(p) /\ SubSeq(t, 1, Len(p)) = p

TrimPrefix(t, p) == IF HasPrefix(t, p) THEN SubSeq(t, Len(p) + 1, Len(t)) ELSE t

HasSuffix(t, p) == Len(t) >= Len(p) /\ SubSeq(t, Len(t) - Len(p) + 1, Len(t)) = p

TrimSuffix(t, p) == IF HasSuffix(t, p) THEN SubSeq(t, 1, Len(t) - Len(p)) ELSE t

-----------------------------------------------------------------------------
(* Reply tokens and the responses of model.GenerateContent *)

WS == " "
FENCE == "fence"
YAMLWORD == "yaml"

IsSpaceTok(k) == k = WS

RECURSIVE TrimLeftTok(_)
TrimLeftTok(t) ==
    IF t = <<>> THEN t
    ELSE IF IsSpaceTok(Head(t).t) THEN TrimLeftTok(Tail(t)) ELSE t

RECURSIVE TrimRightTok(_)
TrimRightTok(t) ==
    IF t = <<>> THEN t
    ELSE IF IsSpaceTok(t[Len(t)].t) THEN TrimRightTok(SubSeq(t, 1, Len(t) - 1)) ELSE t

\* strings.TrimSpace on a reply text
TrimSpaceTok(t) == TrimRightTok(TrimLeftTok(t))

Tok(k) == [t |-> k]
Word(w) == [t |-> "word", w |-> w]
DocTok(d) == [t |-> "doc", doc |-> d]

\* the four shapes of a GenerateContent return the code distinguishes
RespError == [kind |-> "error"]
RespNoContent == [kind |-> "nocontent"]
RespNonText == [kind |-> "nontext"]
RespText(t) == [kind |-> "text", text |-> t]

\* cleanYAML: TrimSpace, then TrimPrefix of a fence with yaml, TrimPrefix of a
\* bare fence, TrimSuffix of a fence
CleanYAML(text) ==
    LET a == TrimSpaceTok(text)
        b == TrimPrefix(a, <<Tok(FENCE), Tok(YAMLWORD)>>)
        c == TrimPrefix(b, <<Tok(FENCE)>>)
    IN  TrimSuffix(c, <<Tok(FENCE)>>)

-----------------------------------------------------------------------------
(* models.go: the session model *)

NoName == <<>>

ZeroState ==
    [Inventory |-> <<>>, Stats |-> <<>>, CurrentLocation |-> NoName,
     Health |-> "", Progress |-> ""]

ZeroWorld ==
    [Title |-> "", ShortName |-> NoName, Description |-> "",
     Possibilities |-> <<>>, StateSchema |-> "", StatDisplayNames |-> <<>>,
     StatPolarities |-> <<>>, WinConditions |-> "", LoseConditions |-> ""]

ZeroLocation ==
    [Name |-> NoName, Description |-> "", People |-> <<>>, Objects |-> <<>>]

NilLocation == [nil |-> TRUE]

ZeroHistory == [Summary |-> <<>>, Entries |-> <<>>]

HistoryEntry(action, outcome, status, explanations, changes, inventory) ==
    [PlayerAction |-> action, Outcome |-> outcome, Status |-> status,
     Explanations |-> explanations, Changes |-> changes, Inventory |-> inventory]

GameSession(world, state, history, locations) ==
    [World |-> world, State |-> state, History |-> history, Locations |-> locations]

\* mp[k] = v on a Go map
MapPut(mp, k, v) == [x \in (DOMAIN mp) \cup {k} |-> IF x = k THEN v ELSE mp[x]]

-----------------------------------------------------------------------------
(* yaml.Unmarshal of a cleaned reply *)

MapDoc(fields) == [kind |-> "map", fields |-> fields]
BadDoc == [kind |-> "bad"]

NonSpace(t) == SelectSeq(t, LAMBDA k : ~IsSpaceTok(k.t))

Field(fields, key, zero) == IF key \in DOMAIN fields THEN fields[key] ELSE zero

\* A text of white space only is the empty document: Unmarshal returns nil and
\* leaves the target at its zero value.  One well-formed mapping fills the
\* fields it names.  Prose (a scalar), a left-over fence or a malformed
\* document make Unmarshal return an error.
ParsesAsMapping(clean) ==
    LET body == NonSpace(clean)
    IN  \/ body = <<>>
        \/ Len(body) = 1 /\ body[1].t = "doc" /\ body[1].doc.kind = "map"

DocFields(clean) ==
    LET body == NonSpace(clean)
    IN  IF body = <<>> THEN <<>> ELSE body[1].doc.fields

\* engine.go:225-238, the TurnResult decoded from the reply
UnmarshalTurnResult(clean) ==
    LET f == DocFields(clean)
    IN  [Outcome |-> Field(f, "outcome", ""),
         Status |-> Field(f, "status", ""),
         DiscoveredLocation |-> Field(f, "discovered_location", NilLocation),
         Explanations |-> Field(f, "explanations", <<>>),
         Changes |-> Field(f, "changes", <<>>),
         State |-> Field(f, "state", ZeroState)]

\* engine.go:94-102, the respData decoded from the world reply
UnmarshalWorldData(clean) ==
    LET f == DocFields(clean)
    IN  [World |-> Field(f, "world", ZeroWorld),
         InitialLocation |-> Field(f, "initial_location", ZeroLocation),
         State |-> Field(f, "state", ZeroState)]

-----------------------------------------------------------------------------
(* engine.go: SummarizeHistory *)

RetentionFloor == 5
keepCount == 3
CompactThreshold == 8

\* the summarization prompt: the current summary and the entries to fold
SummarizePrompt(s, toSummarize) ==
    [kind |-> "summarize",
     summary |-> s.History.Summary,
     events |-> [i \in 1..Len(toSummarize) |->
                   [PlayerAction |-> toSummarize[i].PlayerAction,
                    Outcome |-> toSummarize[i].Outcome]]]

\* a summarization that stores the reply text as it came, white space included
SummarizeHistory_Untrimmed(s, resp) ==
    LET entries == s.History.Entries
        n == Len(entries)
    IN  IF n <= RetentionFloor
        THEN [session |-> s, err |-> "", requests |-> <<>>]
        ELSE LET toSummarize == SubSeq(entries, 1, n - keepCount)
                 remaining == SubSeq(entries, n - keepCount + 1, n)
                 prompt == SummarizePrompt(s, toSummarize)
             IN  IF resp.kind = "error"
                 THEN [session |-> s, err |-> "transport", requests |-> <<prompt>>]
                 ELSE IF resp.kind = "nocontent"
                 THEN [session |-> s, err |-> "no content", requests |-> <<prompt>>]
                 ELSE IF resp.kind = "nontext"
                 THEN [session |-> s, err |-> "unexpected type", requests |-> <<prompt>>]
                 ELSE [session |->
                          [s EXCEPT !.History =
                              [Summary |-> resp.text, Entries |-> remaining]],
                       err |-> "", requests |-> <<prompt>>]

\* a summarization that cuts the entries before it sends the request, so that
\* a failed request has lost them
SummarizeHistory_CutFirst(s, resp) ==
    LET entries == s.History.Entries
        n == Len(entries)
    IN  IF n <= RetentionFloor
        THEN [session |-> s, err |-> "", requests |-> <<>>]
        ELSE LET toSummarize == SubSeq(entries, 1, n - keepCount)
                 remaining == SubSeq(entries, n - keepCount + 1, n)
                 prompt == SummarizePrompt(s, toSummarize)
                 cut == [s EXCEPT !.History.Entries = remaining]
             IN  IF resp.kind # "text"
                 THEN [session |-> cut, err |-> "failed", requests |-> <<prompt>>]
                 ELSE [session |->
                          [s EXCEPT !.History =
                              [Summary |-> TrimSpaceTok(resp.text),
                               Entries |-> remaining]],
                       err |-> "", requests |-> <<prompt>>]

\* a floor of 3 instead of 5: a plausible slip between the two constants
SummarizeHistory_Floor3(s, resp) ==
    LET entries == s.History.Entries
        n == Len(entries)
    IN  IF n <= keepCount
        THEN [session |-> s, err |-> "", requests |-> <<>>]
        ELSE IF resp.kind # "text"
        THEN [session |-> s, err |-> "failed",
              requests |-> <<SummarizePrompt(s, SubSeq(entries, 1, n - keepCount))>>]
        ELSE [session |->
                 [s EXCEPT !.History =
                     [Summary |-> TrimSpaceTok(resp.text),
                      Entries |-> SubSeq(entries, n - keepCount + 1, n)]],
              err |-> "",
              requests |-> <<SummarizePrompt(s, SubSeq(entries, 1, n - keepCount))>>]

SummarizeHistory(s, resp) ==
    LET entries == s.History.Entries
        n == Len(entries)
    IN  IF n <= RetentionFloor
        THEN [session |-> s, err |-> "", requests |-> <<>>]
        ELSE LET toSummarize == SubSeq(entries, 1, n - keepCount)
                 remaining == SubSeq(entries, n - keepCount + 1, n)
                 prompt == SummarizePrompt(s, toSummarize)
             IN  IF resp.kind = "error"
                 THEN [session |-> s, err |-> "transport", requests |-> <<prompt>>]
                 ELSE IF resp.kind = "nocontent"
                 THEN [session |-> s, err |-> "no content", requests |-> <<prompt>>]
                 ELSE IF resp.kind = "nontext"
                 THEN [session |-> s, err |-> "unexpected type", requests |-> <<prompt>>]
                 ELSE [session |->
                          [s EXCEPT !.History =
                              [Summary |-> TrimSpaceTok(resp.text),
                               Entries |-> remaining]],
                       err |-> "", requests |-> <<prompt>>]

-----------------------------------------------------------------------------
(* engine.go: ProcessTurn, step by step *)

\* compaction that sets the summary but keeps every entry
PT_Compact_KeepAll(s, sumResp) ==
    LET r == SummarizeHistory(s, sumResp)
    IN  IF Len(s.History.Entries) > CompactThreshold
        THEN [r EXCEPT !.session.History.Entries = s.History.Entries]
        ELSE [session |-> s, err |-> "", requests |-> <<>>]

\* a compaction that waits for one entry more than the threshold
PT_Compact_OneLate(s, sumResp) ==
    IF Len(s.History.Entries) > CompactThreshold + 1
    THEN SummarizeHistory(s, sumResp)
    ELSE [session |-> s, err |-> "", requests |-> <<>>]

\* engine.go:117-123: compaction; its error is logged and dropped
PT_Compact(s, sumResp) ==
    IF Len(s.History.Entries) > CompactThreshold
    THEN SummarizeHistory(s, sumResp)
    ELSE [session |-> s, err |-> "", requests |-> <<>>]

\* engine.go:125-203: the turn prompt rendered from the session
TurnPrompt(s, action) ==
    [kind |-> "turn",
     description |-> s.World.Description,
     win |-> s.World.WinConditions,
     lose |-> s.World.LoseConditions,
     locations |-> s.Locations,
     state |-> s.State,
     summary |-> s.History.Summary,
     entries |-> s.History.Entries,
     action |-> action]

\* engine.go:205-238: the error returns that precede the apply step
PT_Decode(resp) ==
    IF resp.kind = "error" THEN [err |-> "transport"]
    ELSE IF resp.kind = "nocontent" THEN [err |-> "no content"]
    ELSE IF resp.kind = "nontext" THEN [err |-> "unexpected type"]
    ELSE LET clean == CleanYAML(resp.text)
         IN  IF ~ParsesAsMapping(clean)
             THEN [err |-> "parse"]
             ELSE [err |-> "", result |-> UnmarshalTurnResult(clean)]

\* an apply step that keeps the old state when the reply carries none
PT_ApplyState_KeepIfAbsent(s, result) ==
    IF result.State = ZeroState THEN s ELSE [s EXCEPT !.State = result.State]

\* engine.go:241
PT_ApplyState(s, result) == [s EXCEPT !.State = result.State]

Discovers(result) ==
    /\ result.DiscoveredLocation # NilLocation
    /\ result.DiscoveredLocation.Name # NoName

\* an insert that keeps the entry already stored under the name
PT_ApplyLocation_KeepOld(s, result) ==
    IF Discovers(result) /\ result.DiscoveredLocation.Name \notin DOMAIN s.Locations
    THEN [s EXCEPT !.Locations =
             MapPut(s.Locations, result.DiscoveredLocation.Name,
                    result.DiscoveredLocation)]
    ELSE s

\* an insert that starts from a fresh map and so drops the locations known
PT_ApplyLocation_FreshMap(s, result) ==
    IF Discovers(result)
    THEN [s EXCEPT !.Locations =
             MapPut(<<>>, result.DiscoveredLocation.Name,
                    result.DiscoveredLocation)]
    ELSE s

\* engine.go:242-249
PT_ApplyLocation(s, result) ==
    IF Discovers(result)
    THEN [s EXCEPT !.Locations =
             MapPut(s.Locations, result.DiscoveredLocation.Name,
                    result.DiscoveredLocation)]
    ELSE s

\* engine.go:250-257
PT_ApplyHistory(s, action, result) ==
    [s EXCEPT !.History.Entries =
        Append(s.History.Entries,
               HistoryEntry(action, result.Outcome, result.Status,
                            result.Explanations, result.Changes,
                            result.State.Inventory))]

\* engine.go:116-260, the whole call: the session it leaves, what it returns
\* and the requests it sent to the generator
ProcessTurn(s, action, sumResp, turnResp) ==
    LET c == PT_Compact(s, sumResp)
        s1 == c.session
        d == PT_Decode(turnResp)
        reqs == c.requests \o <<TurnPrompt(s1, action)>>
    IN  IF d.err # ""
        THEN [session |-> s1, err |-> d.err, outcome |-> "", status |-> "",
              discovered |-> NoName, requests |-> reqs, sumErr |-> c.err]
        ELSE LET r == d.result
                 s2 == PT_ApplyState(s1, r)
                 s3 == PT_ApplyLocation(s2, r)
                 s4 == PT_ApplyHistory(s3, action, r)
             IN  [session |-> s4, err |-> "", outcome |-> r.Outcome,
                  status |-> r.Status,
                  discovered |-> IF Discovers(r) THEN r.DiscoveredLocation.Name
                                 ELSE NoName,
                  requests |-> reqs, sumErr |-> c.err]

\* a construction that enters the initial location whatever its name
GenerateWorld_AlwaysInsert(resp) ==
    IF resp.kind = "error" THEN [err |-> "transport"]
    ELSE IF resp.kind = "nocontent" THEN [err |-> "no content"]
    ELSE IF resp.kind = "nontext" THEN [err |-> "unexpected type"]
    ELSE LET clean == CleanYAML(resp.text)
         IN  IF ~ParsesAsMapping(clean)
             THEN [err |-> "parse"]
             ELSE LET d == UnmarshalWorldData(clean)
                  IN  [err |-> "",
                       session |->
                          GameSession(d.World, d.State, ZeroHistory,
                                      MapPut(<<>>, d.InitialLocation.Name,
                                             d.InitialLocation))]

\* engine.go:74-113
GenerateWorld(resp) ==
    IF resp.kind = "error" THEN [err |-> "transport"]
    ELSE IF resp.kind = "nocontent" THEN [err |-> "no content"]
    ELSE IF resp.kind = "nontext" THEN [err |-> "unexpected type"]
    ELSE LET clean == CleanYAML(resp.text)
         IN  IF ~ParsesAsMapping(clean)
             THEN [err |-> "parse"]
             ELSE LET d == UnmarshalWorldData(clean)
                      empty == GameSession(d.World, d.State, ZeroHistory, <<>>)
                  IN  [err |-> "",
                       session |->
                          IF d.InitialLocation.Name # NoName
                          THEN [empty EXCEPT !.Locations =
                                   MapPut(<<>>, d.InitialLocation.Name,
                                          d.InitialLocation)]
                          ELSE empty]

-----------------------------------------------------------------------------
(* persistence.go: documents of a save *)

CurrentSaveVersion == "1"

NoFile == [kind |-> "nofile"]
NilSession == [nil |-> TRUE]

\* no store call made yet
NoIO == [op |-> "none", name |-> NoName, err |-> "", session |-> NilSession,
         list |-> <<>>]

\* yaml.Marshal drops a key tagged omitempty whose value is empty
OmitEmpty(fields, emptyKeys) ==
    [k \in (DOMAIN fields) \ emptyKeys |-> fields[k]]

MarshalVersion(v) == MapDoc([version |-> v])

UnmarshalVersion(doc) == [Version |-> Field(doc.fields, "version", "")]

MarshalWorld(w) ==
    MapDoc([title |-> w.Title, short_name |-> w.ShortName,
            description |-> w.Description, possibilities |-> w.Possibilities,
            state_schema |-> w.StateSchema,
            stat_display_names |-> w.StatDisplayNames,
            stat_polarities |-> w.StatPolarities,
            win_conditions |-> w.WinConditions,
            lose_conditions |-> w.LoseConditions])

UnmarshalWorld(doc) ==
    LET f == doc.fields
    IN  [Title |-> Field(f, "title", ""),
         ShortName |-> Field(f, "short_name", NoName),
         Description |-> Field(f, "description", ""),
         Possibilities |-> Field(f, "possibilities", <<>>),
         StateSchema |-> Field(f, "state_schema", ""),
         StatDisplayNames |-> Field(f, "stat_display_names", <<>>),
         StatPolarities |-> Field(f, "stat_polarities", <<>>),
         WinConditions |-> Field(f, "win_conditions", ""),
         LoseConditions |-> Field(f, "lose_conditions", "")]

MarshalState(st) ==
    MapDoc([inventory |-> st.Inventory, stats |-> st.Stats,
            current_location |-> st.CurrentLocation, health |-> st.Health,
            progress |-> st.Progress])

UnmarshalState(doc) ==
    LET f == doc.fields
    IN  [Inventory |-> Field(f, "inventory", <<>>),
         Stats |-> Field(f, "stats", <<>>),
         CurrentLocation |-> Field(f, "current_location", NoName),
         Health |-> Field(f, "health", ""),
         Progress |-> Field(f, "progress", "")]

MarshalEntry(e) ==
    OmitEmpty([player_action |-> e.PlayerAction, outcome |-> e.Outcome,
               status |-> e.Status, explanations |-> e.Explanations,
               changes |-> e.Changes, inventory |-> e.Inventory],
              {k \in {"explanations", "changes", "inventory"} :
                  \/ k = "explanations" /\ e.Explanations = <<>>
                  \/ k = "changes" /\ e.Changes = <<>>
                  \/ k = "inventory" /\ e.Inventory = <<>>})

UnmarshalEntry(f) ==
    HistoryEntry(Field(f, "player_action", NoName), Field(f, "outcome", ""),
                 Field(f, "status", ""), Field(f, "explanations", <<>>),
                 Field(f, "changes", <<>>), Field(f, "inventory", <<>>))

MarshalHistory(h) ==
    MapDoc([summary |-> h.Summary,
            entries |-> [i \in 1..Len(h.Entries) |-> MarshalEntry(h.Entries[i])]])

UnmarshalHistory(doc) ==
    LET f == doc.fields
        es == Field(f, "entries", <<>>)
    IN  [Summary |-> Field(f, "summary", <<>>),
         Entries |-> [i \in 1..Len(es) |-> UnmarshalEntry(es[i])]]

MarshalLocation(l) ==
    MapDoc([name |-> l.Name, description |-> l.Description,
            people |-> l.People, objects |-> l.Objects])

UnmarshalLocation(doc) ==
    LET f == doc.fields
    IN  [Name |-> Field(f, "name", NoName),
         Description |-> Field(f, "description", ""),
         People |-> Field(f, "people", <<>>),
         Objects |-> Field(f, "objects", <<>>)]

\* yaml.Marshal of the whole session followed by yaml.Unmarshal
\* (models_test.go:33-42)
MarshalSession(s) ==
    MapDoc([world |-> MarshalWorld(s.World), state |-> MarshalState(s.State),
            history |-> MarshalHistory(s.History),
            locations |-> [k \in DOMAIN s.Locations |->
                              MarshalLocation(s.Locations[k])]])

UnmarshalSession(doc) ==
    LET f == doc.fields
        ls == Field(f, "locations", <<>>)
    IN  GameSession(
            IF "world" \in DOMAIN f THEN UnmarshalWorld(f.world) ELSE ZeroWorld,
            IF "state" \in DOMAIN f THEN UnmarshalState(f.state) ELSE ZeroState,
            IF "history" \in DOMAIN f THEN UnmarshalHistory(f.history)
            ELSE ZeroHistory,
            [k \in DOMAIN ls |-> UnmarshalLocation(ls[k])])

\* strings.ToLower on the letters that occur in names
UpperToLower == [H |-> "h", C |-> "c", O |-> "o", M |-> "m"]

ToLower(t) ==
    [i \in 1..Len(t) |->
        IF t[i] \in DOMAIN UpperToLower THEN UpperToLower[t[i]] ELSE t[i]]

ReplaceAll(t, old, new) == [i \in 1..Len(t) |-> IF t[i] = old THEN new ELSE t[i]]

\* persistence.go:75, the file name (without .yaml) of a location document
safeName(name) == ReplaceAll(ToLower(name), " ", "-")

-----------------------------------------------------------------------------
(* persistence.go: Save, LoadSession, ListSessions *)

EmptyDir ==
    [version |-> NoFile, world |-> NoFile, state |-> NoFile, history |-> NoFile,
     locations |-> <<>>]

\* the steps of Save at which the file system can return an error
SaveSteps == <<"mkdir", "version", "world", "state", "history", "locations">>

StepIndex(step) == CHOOSE i \in 1..Len(SaveSteps) : SaveSteps[i] = step

\* the step fails or a step before it has failed
Reached(step, failAt) ==
    failAt = "none" \/ StepIndex(step) < StepIndex(failAt)

\* persistence.go:63-80: one document per location, named by safeName; the
\* map is ranged over in no fixed order, so of two locations with the same
\* safeName either one can be the last written: pick(f) is the survivor.
LocationFiles(s, old, pick) ==
    LET names == DOMAIN s.Locations
        written == {safeName(n) : n \in names}
    IN  [f \in (DOMAIN old) \cup written |->
            IF f \in written THEN MarshalLocation(s.Locations[pick[f]])
            ELSE old[f]]

\* the choices of a last-written location for each file name
Survivors(s) ==
    LET names == DOMAIN s.Locations
        written == {safeName(n) : n \in names}
    IN  {pick \in [written -> names] : \A f \in written : safeName(pick[f]) = f}

\* persistence.go:21-83: the save directory after Save(name) on session s,
\* when the file system fails at step failAt ("none": no failure)
SaveDirAfter(s, old, failAt, pick) ==
    LET d0 == old
        d1 == IF Reached("version", failAt)
              THEN [d0 EXCEPT !.version = MarshalVersion(CurrentSaveVersion)] ELSE d0
        d2 == IF Reached("world", failAt)
              THEN [d1 EXCEPT !.world = MarshalWorld(s.World)] ELSE d1
        d3 == IF Reached("state", failAt)
              THEN [d2 EXCEPT !.state = MarshalState(s.State)] ELSE d2
        d4 == IF Reached("history", failAt)
              THEN [d3 EXCEPT !.history = MarshalHistory(s.History)] ELSE d3
        d5 == IF Reached("locations", failAt) /\ Cardinality(DOMAIN s.Locations) > 0
              THEN [d4 EXCEPT !.locations = LocationFiles(s, d4.locations, pick)]
              ELSE d4
    IN  d5

\* the steps at which Save of session s can meet a file system error
SaveFailures(s) ==
    {SaveSteps[i] : i \in 1..Len(SaveSteps)}
        \ (IF DOMAIN s.Locations = {} THEN {"locations"} ELSE {})

\* persistence.go:21-83: s.Save(name) on save directory d: the directory it
\* leaves and the error it returns ("": nil); an error at the locations step
\* is taken at its first write
Save(d, s, name, failAt, pick) ==
    LET old == IF name \in DOMAIN d THEN d[name] ELSE EmptyDir
    IN  [disk |-> IF failAt = "mkdir" THEN d
                  ELSE MapPut(d, name, SaveDirAfter(s, old, failAt, pick)),
         err |-> IF failAt = "none" THEN "" ELSE failAt]

Readable(file) == file # NoFile
Parses(file) == file.kind = "map"

\* a gate that only asks whether the marker exists, as ListSessions does
VersionError_MarkerOnly(dir) ==
    IF ~Readable(dir.version) THEN "could not read version info" ELSE ""

\* persistence.go:85-99, the version gate
VersionError(dir) ==
    IF ~Readable(dir.version) THEN "could not read version info"
    ELSE IF ~Parses(dir.version) THEN "yaml"
    ELSE IF UnmarshalVersion(dir.version).Version # CurrentSaveVersion
    THEN "incompatible save version"
    ELSE ""

\* persistence.go:131-149: every readable, parsable document of the locations
\* directory is entered under the name it contains
LoadLocations(dir) ==
    LET files == {f \in DOMAIN dir.locations : Parses(dir.locations[f])}
        names == {UnmarshalLocation(dir.locations[f]).Name : f \in files}
    IN  [n \in names |->
            UnmarshalLocation(
                dir.locations[CHOOSE f \in files :
                                 UnmarshalLocation(dir.locations[f]).Name = n])]

\* persistence.go:85-157
LoadSession(d, name) ==
    LET dir == IF name \in DOMAIN d THEN d[name] ELSE EmptyDir
        fail(e) == [err |-> e, session |-> NilSession]
    IN  IF VersionError(dir) # "" THEN fail(VersionError(dir))
        ELSE IF ~Readable(dir.world) \/ ~Parses(dir.world) THEN fail("world")
        ELSE IF ~Readable(dir.state) \/ ~Parses(dir.state) THEN fail("state")
        ELSE IF ~Readable(dir.history) \/ ~Parses(dir.history) THEN fail("history")
        ELSE [err |-> "",
              session |-> GameSession(UnmarshalWorld(dir.world),
                                      UnmarshalState(dir.state),
                                      UnmarshalHistory(dir.history),
                                      LoadLocations(dir))]

\* byte order of the characters that occur in names
Alphabet ==
    <<" ", "-", "/", "C", "H", "M", "O", "a", "b", "c", "d", "e", "g", "h", "i",
      "k", "l", "m", "n", "o", "q", "r", "s", "t", "u", "v">>

Rank(c) == CHOOSE i \in 1..Len(Alphabet) : Alphabet[i] = c

RECURSIVE TextLess(_, _)
TextLess(a, b) ==
    IF b = <<>> THEN FALSE
    ELSE IF a = <<>> THEN TRUE
    ELSE IF Head(a) = Head(b) THEN TextLess(Tail(a), Tail(b))
    ELSE Rank(Head(a)) < Rank(Head(b))

\* os.ReadDir returns the entries sorted by file name
RECURSIVE SortedNames(_)
SortedNames(S) ==
    IF S = {} THEN <<>>
    ELSE LET least == CHOOSE x \in S : \A y \in S \ {x} : TextLess(x, y)
         IN  <<least>> \o SortedNames(S \ {least})

\* persistence.go:159-180: the subdirectories in which version.yaml exists,
\* in directory order
ListSessions(d) ==
    SortedNames({n \in DOMAIN d : n # NoName /\ Readable(d[n].version)})

-----------------------------------------------------------------------------
(* tui: the model, its messages and the texts typed into the text area *)

\* the two revisions of package tui in the repository: internal/tui/tui.go
\* (quit confirmation, no loadingTurn) and the revision with loadingTurn,
\* inputErr and tab completion
RevQuitConfirm == "tui.go"
RevLoadingTurn == "loadingTurn"

stateInputHint == "stateInputHint"
stateLoading == "stateLoading"
statePlaying == "statePlaying"
stateQuitting == "stateQuitting"
stateError == "stateError"

NilRef == 0

\* tui.go:71-85, NewModel
NewModel ==
    [state |-> stateInputHint, session |-> NilRef, input |-> <<>>, err |-> "",
     inputErr |-> "", history |-> <<>>, lastOutcome |-> "", lastTabIdx |-> -1,
     lastSearch |-> <<>>, loadingTurn |-> FALSE]

\* the controller does not run
CtlOff ==
    /\ rev = "none" /\ m = NewModel /\ heap = <<>> /\ tasks = <<>>
    /\ msgs = <<>> /\ run = "off" /\ nextTask = 0 /\ keys = 0

\* logEntry values; Text is kept as the data it is formatted from
UserEntry(action) == [IsUser |-> TRUE, IsSideEffect |-> FALSE,
                      Text |-> [k |-> "action", action |-> action]]
OutcomeEntry(outcome) == [IsUser |-> FALSE, IsSideEffect |-> FALSE,
                          Text |-> [k |-> "outcome", outcome |-> outcome]]
SideEffectEntry(changes) == [IsUser |-> FALSE, IsSideEffect |-> TRUE,
                             Text |-> [k |-> "effects", changes |-> changes]]
NoteEntry(kind, name) == [IsUser |-> FALSE, IsSideEffect |-> FALSE,
                          Text |-> [k |-> kind, name |-> name]]
\* "%s\nLocation: %s\n\n%s" of World.Title, State.CurrentLocation, World.Description
OpeningEntry(s) ==
    [IsUser |-> FALSE, IsSideEffect |-> FALSE,
     Text |-> [k |-> "opening", title |-> s.World.Title,
               location |-> s.State.CurrentLocation,
               description |-> s.World.Description]]
\* tui.go:156, "World: %s\n\n%s" of State.CurrentLocation, World.Description
LoadOpeningEntry(s) ==
    [IsUser |-> FALSE, IsSideEffect |-> FALSE,
     Text |-> [k |-> "opening", title |-> "World:",
               location |-> s.State.CurrentLocation,
               description |-> s.World.Description]]

\* messages
worldGeneratedMsg(ref) == [type |-> "worldGeneratedMsg", session |-> ref]
turnProcessedMsg(outcome, err) ==
    [type |-> "turnProcessedMsg", outcome |-> outcome, err |-> err]
errMsg(err) == [type |-> "errMsg", err |-> err]
QuitMsg == [type |-> "QuitMsg"]

\* texts
CmdLoad == <<"/", "l", "o", "a", "d", " ">>
CmdSave == <<"/", "s", "a", "v", "e">>
CmdSaveSp == <<"/", "s", "a", "v", "e", " ">>
CmdQuit == <<"/", "q", "u", "i", "t">>
CmdRestart == <<"/", "r", "e", "s", "t", "a", "r", "t">>
CmdCancel == <<"/", "c", "a", "n", "c", "e", "l">>
Slash == <<"/">>
Random == <<"r", "a", "n", "d", "o", "m">>
Bogus == <<"/", "b", "o", "g", "u", "s">>
Blank == <<" ">>
Current == <<"c", "u", "r", "r", "e", "n", "t">>

-----------------------------------------------------------------------------
(* The values the engine specification draws sessions and replies from *)

Hall == <<"H", "a", "l", "l">>
Cave == <<"C", "a", "v", "e">>
Slug == <<"h", "m">>

World1 ==
    [Title |-> "The Hidden Manor", ShortName |-> Slug,
     Description |-> "A dark forest", Possibilities |-> <<"look", "walk">>,
     StateSchema |-> "health and inventory",
     StatDisplayNames |-> [health |-> "Vitality"],
     StatPolarities |-> [health |-> "good"],
     WinConditions |-> "Find the key", LoseConditions |-> "Health reaches 0"]

HallLoc == [Name |-> Hall, Description |-> "A hall", People |-> <<"Butler">>,
            Objects |-> <<"Lamp">>]
HallLoc2 == [Name |-> Hall, Description |-> "The hall, now lit", People |-> <<>>,
             Objects |-> <<"Lamp", "Key">>]
CaveLoc == [Name |-> Cave, Description |-> "A cave", People |-> <<>>,
            Objects |-> <<"Chest">>]
NamelessLoc == [Name |-> NoName, Description |-> "Somewhere", People |-> <<>>,
                Objects |-> <<>>]

State1 == [Inventory |-> <<"map">>, Stats |-> [health |-> "100"],
           CurrentLocation |-> Hall, Health |-> "100", Progress |-> "0%"]
State2 == [Inventory |-> <<"map", "key">>, Stats |-> [health |-> "90"],
           CurrentLocation |-> Cave, Health |-> "90", Progress |-> "10%"]

Look == <<"l", "o", "o", "k">>
GoNorth == <<"g", "o", " ", "n">>
Actions == {Look, GoNorth}

\* turn replies
DocPlain == MapDoc([outcome |-> "o1", status |-> "PLAYING", state |-> State1])
DocCave == MapDoc([outcome |-> "o2", status |-> "PLAYING",
                   discovered_location |-> CaveLoc,
                   explanations |-> <<"You found a key.">>,
                   changes |-> [health |-> "-10"], state |-> State2])
DocHall2 == MapDoc([outcome |-> "o3", status |-> "PLAYING",
                    discovered_location |-> HallLoc2, state |-> State1])
DocNameless == MapDoc([outcome |-> "o4", status |-> "WON",
                       discovered_location |-> NamelessLoc, state |-> State2])
DocOutcomeOnly == MapDoc([outcome |-> "o5"])

GoodTurnTexts ==
    { <<DocTok(DocPlain)>>,
      <<Tok(WS), Tok(FENCE), Tok(YAMLWORD), Tok(WS), DocTok(DocCave), Tok(WS),
        Tok(FENCE), Tok(WS)>>,
      <<Tok(FENCE), Tok(WS), DocTok(DocHall2), Tok(WS), Tok(FENCE)>>,
      <<DocTok(DocNameless)>>,
      <<DocTok(DocOutcomeOnly), Tok(WS)>> }

BadTurnTexts ==
    { <<Word("You"), Tok(WS), Word("look")>>,
      <<DocTok(BadDoc)>> }

TurnReplies ==
    {RespError, RespNoContent, RespNonText}
      \cup {RespText(t) : t \in GoodTurnTexts \cup BadTurnTexts \cup {<<>>}}

SumReplies ==
    {RespError, RespNoContent, RespNonText,
     RespText(<<Tok(WS), Word("s1"), Tok(WS)>>),
     RespText(<<Tok(WS)>>)}

\* world replies
DocWorld == MapDoc([world |-> World1, initial_location |-> HallLoc,
                    state |-> State1])
DocWorldNoLoc == MapDoc([world |-> World1, state |-> State1])

WorldReplies ==
    {RespError, RespNoContent, RespNonText,
     RespText(<<Tok(FENCE), Tok(YAMLWORD), Tok(WS), DocTok(DocWorld), Tok(WS),
                Tok(FENCE)>>),
     RespText(<<DocTok(DocWorldNoLoc)>>),
     RespText(<<Word("Sorry")>>),
     RespText(<<>>)}

\* the i-th turn of a game already played
PlayedEntry(i) ==
    HistoryEntry(IF i % 2 = 1 THEN Look ELSE GoNorth, "h" \o ToString(i),
                 "PLAYING", <<>>, <<>>, <<"map">>)

PlayedHistory(summary, n) ==
    [Summary |-> summary, Entries |-> [i \in 1..n |-> PlayedEntry(i)]]

\* sessions of a game in progress: generated, then n turns played
InitSessions ==
    { GameSession(World1, State1, PlayedHistory(sm, n), MapPut(<<>>, Hall, HallLoc)) :
        sm \in {<<>>, <<Word("s0")>>}, n \in 0..MaxInitHist }

-----------------------------------------------------------------------------
(* The engine specification: calls of the engine's exported operations *)

NoCall ==
    [op |-> "none", action |-> NoName, pre |-> <<>>, err |-> "", outcome |-> "",
     status |-> "", discovered |-> NoName, requests |-> <<>>, sumErr |-> "",
     sumResp |-> RespError, resp |-> RespError]

EngInit ==
    /\ session \in InitSessions
    /\ call = NoCall
    /\ calls = 0
    /\ disk = <<>> /\ loaded = NilSession /\ io = NoIO /\ saved = <<>> /\ ops = 0
    /\ CtlOff

DoProcessTurn ==
    /\ calls < MaxCalls
    /\ \E action \in Actions, sumResp \in SumReplies, turnResp \in TurnReplies :
          LET r == ProcessTurn(session, action, sumResp, turnResp)
          IN  /\ session' = r.session
              /\ call' = [op |-> "ProcessTurn", action |-> action, pre |-> session,
                          err |-> r.err, outcome |-> r.outcome,
                          status |-> r.status, discovered |-> r.discovered,
                          requests |-> r.requests, sumErr |-> r.sumErr,
                          sumResp |-> sumResp, resp |-> turnResp]
    /\ calls' = calls + 1
    /\ UNCHANGED <<storeVars, ctlVars>>

DoSummarizeHistory ==
    /\ calls < MaxCalls
    /\ \E resp \in SumReplies :
          LET r == SummarizeHistory(session, resp)
          IN  /\ session' = r.session
              /\ call' = [NoCall EXCEPT !.op = "SummarizeHistory", !.pre = session,
                                        !.err = r.err, !.requests = r.requests,
                                        !.resp = resp]
    /\ calls' = calls + 1
    /\ UNCHANGED <<storeVars, ctlVars>>

DoGenerateWorld ==
    /\ calls < MaxCalls
    /\ \E resp \in WorldReplies :
          LET r == GenerateWorld(resp)
          IN  /\ session' = IF r.err = "" THEN r.session ELSE session
              /\ call' = [NoCall EXCEPT !.op = "GenerateWorld", !.pre = session,
                                        !.err = r.err, !.resp = resp]
    /\ calls' = calls + 1
    /\ UNCHANGED <<storeVars, ctlVars>>

EngNext == DoProcessTurn \/ DoSummarizeHistory \/ DoGenerateWorld

SpecEngine == EngInit /\ [][EngNext]_vars

-----------------------------------------------------------------------------
(* The store specification: calls of Save, LoadSession and ListSessions *)

OldMill == <<"O", "l", "d", " ", "M", "i", "l", "l">>
LowMill == <<"o", "l", "d", " ", "m", "i", "l", "l">>

MillLoc == [Name |-> OldMill, Description |-> "A mill", People |-> <<"Miller">>,
            Objects |-> <<>>]
MillLoc2 == [Name |-> LowMill, Description |-> "The mill's cellar",
             People |-> <<>>, Objects |-> <<"Sack">>]

TurnEntry ==
    HistoryEntry(GoNorth, "o2", "PLAYING", <<"You found a key.">>,
                 [health |-> "-10"], <<"map", "key">>)

SessA == GameSession(World1, State1, PlayedHistory(<<>>, 1), MapPut(<<>>, Hall, HallLoc))
SessB ==
    GameSession(World1, State2,
                [Summary |-> <<Word("s0")>>, Entries |-> <<PlayedEntry(1), TurnEntry>>],
                MapPut(MapPut(<<>>, Hall, HallLoc2), Cave, CaveLoc))
SessC ==
    GameSession(World1, State1, PlayedHistory(<<>>, 1),
                MapPut(MapPut(<<>>, OldMill, MillLoc), LowMill, MillLoc2))
SessD == GameSession(World1, State1, ZeroHistory, <<>>)

StoreSessions == {SessA, SessB, SessC, SessD}

Manual == <<"a">>
Old == <<"o", "l", "d">>
SaveNames == {Manual, Slug}
LoadNames == SaveNames \cup {Old}

\* a complete save of s, as Save writes it into an empty directory
CompleteSave(s) ==
    SaveDirAfter(s, EmptyDir, "none", [f \in {safeName(n) : n \in DOMAIN s.Locations} |->
                                          CHOOSE n \in DOMAIN s.Locations : safeName(n) = f])

\* save directories found at start-up: none, a save of another version, a
\* save without version marker (written before the marker existed), a save
\* of the current version
InitDisks ==
    { <<>>,
      MapPut(<<>>, Old, [CompleteSave(SessA) EXCEPT !.version = MarshalVersion("0")]),
      MapPut(<<>>, Old, [CompleteSave(SessA) EXCEPT !.version = NoFile]),
      MapPut(<<>>, Slug, CompleteSave(SessB)) }

MapRemove(mp, k) == [x \in (DOMAIN mp) \ {k} |-> mp[x]]

StoreInit ==
    /\ disk \in InitDisks
    /\ loaded = NilSession
    /\ io = NoIO
    /\ saved = <<>>
    /\ ops = 0
    /\ session = NilSession /\ call = NoCall /\ calls = 0
    /\ CtlOff

DoSave ==
    /\ ops < MaxOps
    /\ \E s \in StoreSessions, name \in SaveNames :
       \E failAt \in {"none"} \cup SaveFailures(s), pick \in Survivors(s) :
          LET r == Save(disk, s, name, failAt, pick)
          IN  /\ disk' = r.disk
              /\ io' = [NoIO EXCEPT !.op = "Save", !.name = name, !.session = s,
                                    !.err = r.err]
              /\ saved' = IF r.err = "" THEN MapPut(saved, name, s)
                          ELSE MapRemove(saved, name)
    /\ ops' = ops + 1
    /\ UNCHANGED <<loaded, engVars, ctlVars>>

DoLoadSession ==
    /\ ops < MaxOps
    /\ \E name \in LoadNames :
          LET r == LoadSession(disk, name)
          IN  /\ loaded' = r.session
              /\ io' = [NoIO EXCEPT !.op = "Load", !.name = name, !.err = r.err]
    /\ ops' = ops + 1
    /\ UNCHANGED <<disk, saved, engVars, ctlVars>>

DoListSessions ==
    /\ ops < MaxOps
    /\ io' = [NoIO EXCEPT !.op = "List", !.list = ListSessions(disk)]
    /\ ops' = ops + 1
    /\ UNCHANGED <<disk, loaded, saved, engVars, ctlVars>>

StoreNext == DoSave \/ DoLoadSession \/ DoListSessions

SpecStore == StoreInit /\ [][StoreNext]_vars

-----------------------------------------------------------------------------
(* tui: the event loop, the commands and the handlers of internal/tui/tui.go *)

\* replies of the generator and file system faults met while the controller runs
CtlWorldReplies ==
    {RespError,
     RespText(<<Tok(FENCE), Tok(YAMLWORD), Tok(WS), DocTok(DocWorld), Tok(WS),
                Tok(FENCE)>>)}
CtlTurnReplies ==
    {RespError,
     RespText(<<Tok(FENCE), Tok(WS), DocTok(DocCave), Tok(WS), Tok(FENCE)>>)}
CtlSumReplies == {RespText(<<Word("s1")>>)}
\* file system faults met by the saves the player asks for, and by the
\* autosave under a name: the directory saves/current, which does not exist
\* yet, cannot be created
SaveFaults == {"mkdir"}
AutosaveFaults(d, name) ==
    IF name = Current /\ name \notin DOMAIN d THEN {"mkdir"} ELSE {}

\* an earlier game in the same world, in which the mill was discovered
EarlierGame == GameSession(World1, State1, ZeroHistory, MapPut(<<>>, OldMill, MillLoc))

\* the game saved as "a": one turn played, which cost health
SavedGame ==
    [SessA EXCEPT !.History.Entries[1].Changes = [health |-> "-10"]]

\* the save directory at start-up: a save "a", a save of another version and
\* the autosave of the earlier game under the world's short name
CtlDisk ==
    MapPut(MapPut(MapPut(<<>>, Manual, CompleteSave(SavedGame)),
                  Old, [CompleteSave(SessA) EXCEPT !.version = MarshalVersion("0")]),
           Slug, CompleteSave(EarlierGame))

\* texts the player types, by state; in Playing tui.go has one path for every
\* text that is not /quit, /restart or "/save <name>", taken here by "look"
\* and "/save"
TypedTexts(state) ==
    IF state = stateInputHint
    THEN {Blank, Random, Bogus, CmdQuit, CmdLoad, CmdLoad \o Manual,
          CmdLoad \o Old}
    ELSE IF state = statePlaying
    THEN {Look, CmdQuit, CmdRestart, CmdSaveSp, CmdSaveSp \o Manual}
            \cup (IF rev = RevLoadingTurn THEN {Bogus} ELSE {})
    ELSE IF state = stateQuitting
    THEN {Manual, CmdCancel}
    ELSE {}

Running == run = "running"

Frame == UNCHANGED <<rev, engVars, loaded, io, saved, ops>>

\* Update returns (m2, nil)
Only(m2) ==
    /\ m' = m2
    /\ UNCHANGED <<heap, tasks, msgs, disk, run, nextTask>>
    /\ Frame

\* Update returns (m2, tea.Quit): the command sends QuitMsg to the event loop
QuitPending == \E i \in 1..Len(msgs) : msgs[i].type = "QuitMsg"

\* a handler that returns (m2, nil) where the program returns tea.Quit
Quit_Stay(m2) ==
    /\ m' = m2
    /\ UNCHANGED <<heap, tasks, msgs, disk, run, nextTask>>
    /\ Frame

Quit(m2) ==
    /\ ~QuitPending
    /\ m' = m2
    /\ msgs' = Append(msgs, QuitMsg)
    /\ UNCHANGED <<heap, tasks, disk, run, nextTask>>
    /\ Frame

\* Update returns (m2, cmd): cmd starts running in a goroutine
Dispatch(m2, task) ==
    /\ m' = m2
    /\ nextTask' = nextTask + 1
    /\ tasks' = MapPut(tasks, nextTask + 1, task)
    /\ UNCHANGED <<heap, msgs, disk, run>>
    /\ Frame

\* a nil *GameSession is dereferenced
Panic ==
    /\ run' = "panic"
    /\ UNCHANGED <<m, heap, tasks, msgs, disk, nextTask>>
    /\ Frame

\* tui.go:396-404 and 406-411: the commands, with the values their closures
\* captured from the model they were created on
generateWorld(hint) == [kind |-> "generateWorld", hint |-> hint]
processTurn(ref, action) ==
    [kind |-> "processTurn", session |-> ref, action |-> action, pc |-> "call",
     result |-> <<>>]

\* a Save that reports success and writes nothing
SaveResults_Nothing(d, s, name, faults) == {[disk |-> d, err |-> ""]}

\* the results m.session.Save(name) can have
SaveResults(d, s, name, faults) ==
    {Save(d, s, name, failAt, pick) :
        failAt \in {"none"} \cup (faults \cap SaveFailures(s)),
        pick \in Survivors(s)}

\* a new session gets the smallest reference not in use
NewRef ==
    CHOOSE n \in 1..(Cardinality(DOMAIN heap) + 1) :
        /\ n \notin DOMAIN heap
        /\ \A k \in 1..(n - 1) : k \in DOMAIN heap

\* the references the model, the running commands and the queued messages hold
Refs(mm, tk, q) ==
    {mm.session}
        \cup {tk[i].session : i \in {j \in DOMAIN tk : tk[j].kind = "processTurn"}}
        \cup {q[i].session : i \in {j \in 1..Len(q) : q[j].type = "worldGeneratedMsg"}}

\* the Go runtime frees a session that no reference reaches
Collect(h, mm, tk, q) ==
    [r \in DOMAIN h \cap Refs(mm, tk, q) |-> h[r]]

\* Update returns (m2, nil) and m2 may have let go of its session
Release(m2) ==
    /\ m' = m2
    /\ heap' = Collect(heap, m2, tasks, msgs)
    /\ UNCHANGED <<tasks, msgs, disk, run, nextTask>>
    /\ Frame

RECURSIVE ReplayLog(_)
\* a replay that leaves the player's actions out
ReplayLog_OutcomesOnly(entries) ==
    [i \in 1..Len(entries) |-> OutcomeEntry(entries[i].Outcome)]

\* tui.go:158-161: the action and the outcome of every history entry
ReplayLog(entries) ==
    IF entries = <<>> THEN <<>>
    ELSE <<UserEntry(Head(entries).PlayerAction), OutcomeEntry(Head(entries).Outcome)>>
            \o ReplayLog(Tail(entries))

\* tui.go:271-274: a key that is no command key goes to the text area; the
\* player types a line into the empty text area
TypeText ==
    /\ UNCHANGED keys
    /\ Running /\ ~QuitPending
    /\ m.input = <<>>
    /\ \E t \in TypedTexts(m.state) :
          /\ t # <<>>
          /\ Only([m EXCEPT !.input = t, !.lastTabIdx = -1, !.lastSearch = <<>>])

\* tui.go:110-118; the quit key is pressed on an empty input line
Tui_KeyCtrlC ==
    /\ UNCHANGED keys
    /\ Running /\ ~QuitPending /\ rev = RevQuitConfirm
    /\ m.input = <<>>
    /\ IF m.state = statePlaying
       THEN Only([m EXCEPT !.state = stateQuitting, !.input = <<>>])
       ELSE Quit(m)

\* tui.go:121-139
Tui_KeyEnter_Quitting ==
    /\ keys < MaxKeys /\ keys' = keys + 1
    /\ Running /\ ~QuitPending /\ rev = RevQuitConfirm
    /\ m.state = stateQuitting
    /\ LET action == TrimSpace(m.input)
           m1 == [m EXCEPT !.input = <<>>]
       IN  IF action = CmdCancel
           THEN Only([m1 EXCEPT !.state = statePlaying])
           ELSE IF action = <<>> THEN Quit(m1)
           ELSE IF m.session = NilRef THEN Panic
           ELSE \E r \in SaveResults(disk, heap[m.session], action, SaveFaults) :
                   /\ disk' = r.disk
                   /\ IF r.err # ""
                      THEN /\ m' = [m1 EXCEPT !.err = r.err, !.state = stateError]
                           /\ UNCHANGED msgs
                      ELSE /\ ~QuitPending
                           /\ m' = m1
                           /\ msgs' = Append(msgs, QuitMsg)
                   /\ UNCHANGED <<heap, tasks, run, nextTask>>
                   /\ Frame

\* a handler that passes the empty hint on
HintOrRandom_Keep(hint) == hint

\* tui.go:173-176
HintOrRandom(hint) == IF hint = <<>> THEN Random ELSE hint

\* tui.go:140-179
Tui_KeyEnter_InputHint ==
    /\ UNCHANGED keys
    /\ Running /\ ~QuitPending /\ rev = RevQuitConfirm
    /\ m.state = stateInputHint
    /\ LET hint == TrimSpace(m.input)
       IN  IF HasPrefix(hint, CmdLoad)
           THEN LET r == LoadSession(disk, TrimPrefix(hint, CmdLoad))
                IN  IF r.err # ""
                    THEN Only([m EXCEPT !.err = r.err, !.state = stateError])
                    ELSE /\ heap' = MapPut(heap, NewRef, r.session)
                         /\ m' = [m EXCEPT !.session = NewRef, !.state = statePlaying,
                                           !.history = <<LoadOpeningEntry(r.session)>>
                                               \o ReplayLog(r.session.History.Entries),
                                           !.input = <<>>]
                         /\ UNCHANGED <<tasks, msgs, disk, run, nextTask>>
                         /\ Frame
           ELSE Dispatch([m EXCEPT !.state = stateLoading],
                         generateWorld(HintOrRandom(hint)))

\* tui.go:180-218
Tui_KeyEnter_Playing ==
    /\ keys < MaxKeys /\ keys' = keys + 1
    /\ Running /\ ~QuitPending /\ rev = RevQuitConfirm
    /\ m.state = statePlaying
    /\ LET action == TrimSpace(m.input)
           m1 == [m EXCEPT !.input = <<>>]
       IN  IF action = <<>> THEN Only(m)
           ELSE IF action = CmdQuit
           THEN Only([m1 EXCEPT !.state = stateQuitting])
           ELSE IF action = CmdRestart
           THEN Release([m1 EXCEPT !.state = stateInputHint, !.history = <<>>,
                                !.session = NilRef])
           ELSE IF HasPrefix(action, CmdSaveSp)
           THEN IF m.session = NilRef THEN Panic
                ELSE /\ \E r \in SaveResults(disk, heap[m.session],
                                            TrimPrefix(action, CmdSaveSp), SaveFaults) :
                           /\ disk' = r.disk
                           /\ m' = [m1 EXCEPT !.history =
                                      Append(m.history,
                                             NoteEntry(IF r.err # "" THEN "Failed to save"
                                                       ELSE "Game saved as",
                                                       TrimPrefix(action, CmdSaveSp)))]
                     /\ UNCHANGED <<heap, tasks, msgs, run, nextTask>>
                     /\ Frame
           ELSE /\ Dispatch([m1 EXCEPT !.history = Append(m.history, UserEntry(action))],
                            processTurn(m.session, action))

-----------------------------------------------------------------------------
\* a handler that records the error and stays in its state
Failed_KeepState(mm, err) == [mm EXCEPT !.err = err]

\* tui.go:252-255 and 266-267: the error is recorded, the state is stateError
Failed(mm, err) == [mm EXCEPT !.err = err, !.state = stateError]

\* a handler that autosaves under the fixed name only
AutosaveName_Current(s) == Current

\* tui.go:248 and 260: the autosave goes under the world's short name
AutosaveName(s) == s.World.ShortName

\* the autosaves of a message handler; their errors are dropped
RECURSIVE Autosaves(_, _, _)
Autosaves(d, s, names) ==
    IF names = <<>> THEN {d}
    ELSE UNION {Autosaves(r.disk, s, Tail(names)) :
                   r \in SaveResults(d, s, Head(names), AutosaveFaults(d, Head(names)))}

\* tui.go:231-249
Tui_worldGeneratedMsg ==
    /\ UNCHANGED keys
    /\ Running /\ rev = RevQuitConfirm
    /\ msgs # <<>> /\ Head(msgs).type = "worldGeneratedMsg"
    /\ LET s == heap[Head(msgs).session]
       IN  /\ m' = [m EXCEPT !.session = Head(msgs).session, !.state = statePlaying,
                             !.history = Append(m.history, OpeningEntry(s)),
                             !.input = <<>>]
           /\ disk' \in Autosaves(disk, s, <<Current, AutosaveName(s)>>)
    /\ msgs' = Tail(msgs)
    /\ UNCHANGED <<heap, tasks, run, nextTask>>
    /\ Frame

\* tui.go:251-263
Tui_turnProcessedMsg ==
    /\ UNCHANGED keys
    /\ Running /\ rev = RevQuitConfirm
    /\ msgs # <<>> /\ Head(msgs).type = "turnProcessedMsg"
    /\ IF Head(msgs).err # ""
       THEN /\ m' = Failed(m, Head(msgs).err)
            /\ msgs' = Tail(msgs)
            /\ UNCHANGED <<heap, tasks, disk, run, nextTask>>
            /\ Frame
       ELSE IF m.session = NilRef THEN Panic
       ELSE /\ m' = [m EXCEPT !.lastOutcome = Head(msgs).outcome,
                              !.history = Append(m.history,
                                                 OutcomeEntry(Head(msgs).outcome))]
            /\ disk' \in Autosaves(disk, heap[m.session],
                                   <<Current, AutosaveName(heap[m.session])>>)
            /\ msgs' = Tail(msgs)
            /\ UNCHANGED <<heap, tasks, run, nextTask>>
            /\ Frame

\* tui.go:265-268
On_errMsg ==
    /\ UNCHANGED keys
    /\ Running
    /\ msgs # <<>> /\ Head(msgs).type = "errMsg"
    /\ m' = Failed(m, Head(msgs).err)
    /\ msgs' = Tail(msgs)
    /\ UNCHANGED <<heap, tasks, disk, run, nextTask>>
    /\ Frame

\* tea.QuitMsg ends the event loop: Run returns, the process exits and the
\* outstanding commands and the queued messages go with it
On_QuitMsg ==
    /\ UNCHANGED keys
    /\ Running
    /\ msgs # <<>> /\ Head(msgs).type = "QuitMsg"
    /\ run' = "quit"
    /\ msgs' = <<>> /\ tasks' = <<>>
    /\ heap' = Collect(heap, m, <<>>, <<>>)
    /\ UNCHANGED <<m, disk, nextTask>>
    /\ Frame

-----------------------------------------------------------------------------
(* tui: the commands, run by goroutines outside the event loop *)

\* tui.go:396-404: engine.GenerateWorld, then the message
Cmd_generateWorld ==
    /\ UNCHANGED keys
    /\ Running
    /\ \E id \in DOMAIN tasks, resp \in CtlWorldReplies :
          /\ tasks[id].kind = "generateWorld"
          /\ LET r == GenerateWorld(resp)
             IN  IF r.err # ""
                 THEN /\ msgs' = Append(msgs, errMsg(r.err))
                      /\ UNCHANGED heap
                 ELSE /\ heap' = MapPut(heap, NewRef, r.session)
                      /\ msgs' = Append(msgs, worldGeneratedMsg(NewRef))
          /\ tasks' = MapRemove(tasks, id)
    /\ UNCHANGED <<m, disk, run, nextTask>>
    /\ Frame

\* tui.go:406-411 calling engine.go:116-241 on the captured session:
\* compaction, the request, the reply, its decoding and the write of State
Cmd_processTurn_call ==
    /\ UNCHANGED keys
    /\ Running
    /\ \E id \in DOMAIN tasks :
          /\ tasks[id].kind = "processTurn" /\ tasks[id].pc = "call"
          /\ IF tasks[id].session = NilRef THEN Panic
             ELSE \E sumResp \in CtlSumReplies, turnResp \in CtlTurnReplies :
                    LET ref == tasks[id].session
                        c == PT_Compact(heap[ref], sumResp)
                        d == PT_Decode(turnResp)
                    IN  /\ IF d.err # ""
                           THEN /\ msgs' = Append(msgs, turnProcessedMsg("", d.err))
                                /\ tasks' = MapRemove(tasks, id)
                                /\ heap' = Collect([heap EXCEPT ![ref] = c.session],
                                                   m, tasks', msgs')
                           ELSE /\ heap' = [heap EXCEPT ![ref] =
                                               PT_ApplyState(c.session, d.result)]
                                /\ tasks' = [tasks EXCEPT ![id].pc = "applyRest",
                                                          ![id].result = d.result]
                                /\ UNCHANGED msgs
                        /\ UNCHANGED <<m, disk, run, nextTask>>
                        /\ Frame

\* a command that applies the turn and returns no message
Cmd_processTurn_applyRest_NoMsg ==
    /\ UNCHANGED keys
    /\ Running
    /\ \E id \in DOMAIN tasks :
          /\ tasks[id].kind = "processTurn" /\ tasks[id].pc = "applyRest"
          /\ tasks' = MapRemove(tasks, id)
          /\ heap' = Collect([heap EXCEPT ![tasks[id].session] =
                                 PT_ApplyHistory(PT_ApplyLocation(@, tasks[id].result),
                                                 tasks[id].action, tasks[id].result)],
                             m, tasks', msgs)
    /\ UNCHANGED <<m, msgs, disk, run, nextTask>>
    /\ Frame

\* engine.go:242-259 and tui.go:409: the location, the history entry, then
\* the message
Cmd_processTurn_applyRest ==
    /\ UNCHANGED keys
    /\ Running
    /\ \E id \in DOMAIN tasks :
          /\ tasks[id].kind = "processTurn" /\ tasks[id].pc = "applyRest"
          /\ msgs' = Append(msgs, turnProcessedMsg(tasks[id].result.Outcome, ""))
          /\ tasks' = MapRemove(tasks, id)
          /\ heap' = Collect([heap EXCEPT ![tasks[id].session] =
                                 PT_ApplyHistory(PT_ApplyLocation(@, tasks[id].result),
                                                 tasks[id].action, tasks[id].result)],
                             m, tasks', msgs')
    /\ UNCHANGED <<m, disk, run, nextTask>>
    /\ Frame

-----------------------------------------------------------------------------
(* tui: the handlers of the revision with loadingTurn (unnamed/part_001) *)

RECURSIVE ReplayLogEffects(_)
\* part_001:714-724: action, outcome and side effects of every history entry
ReplayLogEffects(entries) ==
    IF entries = <<>> THEN <<>>
    ELSE LET e == Head(entries)
         IN  <<UserEntry(e.PlayerAction), OutcomeEntry(e.Outcome)>>
                \o (IF DOMAIN e.Changes # {} THEN <<SideEffectEntry(e.Changes)>>
                    ELSE <<>>)
                \o ReplayLogEffects(Tail(entries))

\* part_001:659-662: a key other than Tab ends the completion cycle
KeyReset == [m EXCEPT !.lastTabIdx = -1, !.lastSearch = <<>>]

\* part_001:665-667; the quit key is pressed on an empty input line
LT_KeyCtrlC ==
    /\ UNCHANGED keys
    /\ Running /\ ~QuitPending /\ rev = RevLoadingTurn
    /\ m.input = <<>>
    /\ Quit(KeyReset)

\* part_001:669-692
LT_KeyTab ==
    /\ UNCHANGED keys
    /\ Running /\ ~QuitPending /\ rev = RevLoadingTurn
    /\ IF m.state = stateInputHint /\ HasPrefix(m.input, CmdLoad)
       THEN LET search == IF m.lastSearch = <<>> THEN TrimPrefix(m.input, CmdLoad)
                          ELSE m.lastSearch
                matches == SelectSeq(ListSessions(disk), LAMBDA n : HasPrefix(n, search))
                idx == (m.lastTabIdx + 1) % Len(matches)
            IN  IF Len(matches) > 0
                THEN Only([m EXCEPT !.lastSearch = search, !.lastTabIdx = idx,
                                    !.input = CmdLoad \o matches[idx + 1]])
                ELSE Only([m EXCEPT !.lastSearch = search])
       ELSE Only(m)

\* part_001:695-749
LT_KeyEnter_InputHint ==
    /\ UNCHANGED keys
    /\ Running /\ ~QuitPending /\ rev = RevLoadingTurn
    /\ m.state = stateInputHint
    /\ LET hint == TrimSpace(m.input)
           m0 == KeyReset
       IN  IF HasPrefix(hint, Slash)
           THEN IF HasPrefix(hint, CmdLoad)
                THEN LET r == LoadSession(disk, TrimPrefix(hint, CmdLoad))
                     IN  IF r.err # ""
                         THEN Only([m0 EXCEPT !.inputErr = "failed to load",
                                              !.input = <<>>])
                         ELSE /\ heap' = MapPut(heap, NewRef, r.session)
                              /\ m' = [m0 EXCEPT
                                         !.session = NewRef, !.state = statePlaying,
                                         !.history = <<OpeningEntry(r.session)>>
                                            \o ReplayLogEffects(r.session.History.Entries),
                                         !.input = <<>>]
                              /\ UNCHANGED <<tasks, msgs, disk, run, nextTask>>
                              /\ Frame
                ELSE IF hint = CmdQuit THEN Quit(m0)
                ELSE Only([m0 EXCEPT !.inputErr = "unrecognized command",
                                     !.input = <<>>])
           ELSE Dispatch([m0 EXCEPT !.inputErr = "", !.state = stateLoading],
                         generateWorld(HintOrRandom(hint)))

\* part_001:750-801
LT_KeyEnter_Playing ==
    /\ keys < MaxKeys /\ keys' = keys + 1
    /\ Running /\ ~QuitPending /\ rev = RevLoadingTurn
    /\ m.state = statePlaying
    /\ LET action == TrimSpace(m.input)
           m0 == KeyReset
           m1 == [m0 EXCEPT !.input = <<>>]
       IN  IF m.loadingTurn \/ action = <<>> THEN Only(m0)
           ELSE IF action = CmdQuit THEN Quit(m1)
           ELSE IF action = CmdRestart
           THEN Release([m1 EXCEPT !.state = stateInputHint, !.history = <<>>,
                                !.session = NilRef])
           ELSE IF HasPrefix(action, CmdSaveSp)
           THEN IF m.session = NilRef THEN Panic
                ELSE /\ \E r \in SaveResults(disk, heap[m.session],
                                            TrimPrefix(action, CmdSaveSp), SaveFaults) :
                           /\ disk' = r.disk
                           /\ m' = [m1 EXCEPT !.history =
                                      Append(m.history,
                                             NoteEntry(IF r.err # "" THEN "Failed to save"
                                                       ELSE "Game saved as",
                                                       TrimPrefix(action, CmdSaveSp)))]
                     /\ UNCHANGED <<heap, tasks, msgs, run, nextTask>>
                     /\ Frame
           ELSE IF HasPrefix(action, Slash)
           THEN /\ Only([m1 EXCEPT !.history =
                           Append(m.history,
                                  NoteEntry(IF action = CmdSave THEN "Usage: /save <name>"
                                            ELSE "Unrecognized command", action))])
           ELSE /\ Dispatch([m1 EXCEPT !.history = Append(m.history, UserEntry(action)),
                                       !.loadingTurn = TRUE],
                            processTurn(m.session, action))

\* part_001:814-832
LT_worldGeneratedMsg ==
    /\ UNCHANGED keys
    /\ Running /\ rev = RevLoadingTurn
    /\ msgs # <<>> /\ Head(msgs).type = "worldGeneratedMsg"
    /\ LET s == heap[Head(msgs).session]
       IN  /\ m' = [m EXCEPT !.loadingTurn = FALSE, !.session = Head(msgs).session,
                             !.state = statePlaying,
                             !.history = Append(m.history, OpeningEntry(s)),
                             !.input = <<>>]
           /\ disk' \in Autosaves(disk, s, <<AutosaveName(s)>>)
    /\ msgs' = Tail(msgs)
    /\ UNCHANGED <<heap, tasks, run, nextTask>>
    /\ Frame

\* part_001:834-858
LT_turnProcessedMsg ==
    /\ UNCHANGED keys
    /\ Running /\ rev = RevLoadingTurn
    /\ msgs # <<>> /\ Head(msgs).type = "turnProcessedMsg"
    /\ IF Head(msgs).err # ""
       THEN /\ m' = Failed([m EXCEPT !.loadingTurn = FALSE], Head(msgs).err)
            /\ msgs' = Tail(msgs)
            /\ UNCHANGED <<heap, tasks, disk, run, nextTask>>
            /\ Frame
       ELSE IF m.session = NilRef THEN Panic
       ELSE LET s == heap[m.session]
                n == Len(s.History.Entries)
                effects == IF n > 0 /\ DOMAIN s.History.Entries[n].Changes # {}
                           THEN <<SideEffectEntry(s.History.Entries[n].Changes)>>
                           ELSE <<>>
            IN  /\ m' = [m EXCEPT !.loadingTurn = FALSE,
                                  !.lastOutcome = Head(msgs).outcome,
                                  !.history = Append(m.history,
                                                     OutcomeEntry(Head(msgs).outcome))
                                                \o effects]
                /\ disk' \in Autosaves(disk, s, <<AutosaveName(s)>>)
                /\ msgs' = Tail(msgs)
                /\ UNCHANGED <<heap, tasks, run, nextTask>>
                /\ Frame

\* tui.go:120-218 and 270-276 (part_001:694-801 and 865-870): Enter or a
\* typed key in Loading or in Error meets no branch and does not reach the
\* text area
Key_Ignored ==
    /\ keys < MaxKeys /\ keys' = keys + 1
    /\ Running /\ ~QuitPending
    /\ m.state \in {stateLoading, stateError}
    /\ Only(IF rev = RevLoadingTurn THEN KeyReset ELSE m)

-----------------------------------------------------------------------------
(* The controller specification: keys, commands and messages *)

TuiInit ==
    /\ rev \in {RevQuitConfirm, RevLoadingTurn}
    /\ m = NewModel
    /\ heap = <<>> /\ tasks = <<>> /\ msgs = <<>>
    /\ run = "running" /\ nextTask = 0 /\ keys = 0
    /\ disk = CtlDisk
    /\ loaded = NilSession /\ io = NoIO /\ saved = <<>> /\ ops = 0
    /\ session = NilSession /\ call = NoCall /\ calls = 0

TuiNext ==
    \/ TypeText
    \/ Tui_KeyCtrlC
    \/ Tui_KeyEnter_Quitting
    \/ Tui_KeyEnter_InputHint
    \/ Tui_KeyEnter_Playing
    \/ Tui_worldGeneratedMsg
    \/ Tui_turnProcessedMsg
    \/ LT_KeyCtrlC
    \/ LT_KeyTab
    \/ LT_KeyEnter_InputHint
    \/ LT_KeyEnter_Playing
    \/ LT_worldGeneratedMsg
    \/ LT_turnProcessedMsg
    \/ Key_Ignored
    \/ On_errMsg
    \/ On_QuitMsg
    \/ Cmd_generateWorld
    \/ Cmd_processTurn_call
    \/ Cmd_processTurn_applyRest

SpecTui == TuiInit /\ [][TuiNext]_vars

-----------------------------------------------------------------------------
(* Claims about the engine, checked under SpecEngine *)

TurnCall == call.op = "ProcessTurn"
PreEntries == call.pre.History.Entries
LastThree(entries) == SubSeq(entries, Len(entries) - 2, Len(entries))
HasText(resp) == resp.kind = "text" /\ NonSpace(resp.text) # <<>>

\* the discovered location a turn reply carries, NilLocation if none
ReplyLocation(resp) ==
    IF resp.kind # "text" \/ ~ParsesAsMapping(CleanYAML(resp.text))
    THEN NilLocation
    ELSE Field(DocFields(CleanYAML(resp.text)), "discovered_location", NilLocation)

\* C1: when ProcessTurn returns an error, session.State, session.History and
\* session.Locations are what they were before the call.
C1_FailedTurnLeavesSession ==
    (TurnCall /\ call.err # "") =>
        /\ session.State = call.pre.State
        /\ session.History = call.pre.History
        /\ session.Locations = call.pre.Locations

\* C4 as stated: after ProcessTurn on a history of more than 8 entries, at
\* most 3 entries remain and the summary is non-empty.
C4_AtMostThreeRemain ==
    (TurnCall /\ Len(PreEntries) > 8) =>
        /\ Len(session.History.Entries) <= 3
        /\ session.History.Summary # <<>>

\* C4 amended: when ProcessTurn starts with more than 8 entries and the
\* summarization request succeeds, one summarization request is sent first,
\* the entries after the call are the last 3 earlier entries, followed by the
\* new entry if the turn succeeded (at most 4), and the summary is the trimmed
\* summary reply, non-empty when that reply has non-blank text.
C4_CompactionThenAppend ==
    (TurnCall /\ Len(PreEntries) > 8 /\ call.sumErr = "") =>
        /\ Len(call.requests) = 2
        /\ call.requests[1].kind = "summarize"
        /\ call.err # "" => session.History.Entries = LastThree(PreEntries)
        /\ call.err = "" =>
              /\ Len(session.History.Entries) = 4
              /\ SubSeq(session.History.Entries, 1, 3) = LastThree(PreEntries)
              /\ session.History.Entries[4].PlayerAction = call.action
        /\ Len(session.History.Entries) <= 4
        /\ session.History.Summary = TrimSpaceTok(call.sumResp.text)
        /\ HasText(call.sumResp) => session.History.Summary # <<>>

C4_Witness ==
    /\ TurnCall /\ Len(PreEntries) > 8 /\ call.sumErr = "" /\ call.err = ""
    /\ Len(session.History.Entries) = 4
    /\ session.History.Summary # <<>>

\* C5: SummarizeHistory on 5 or fewer entries returns no error, sends no
\* request and leaves the history (and the rest of the session) unchanged.
C5_SummarizeNoOpAtFloor ==
    (call.op = "SummarizeHistory" /\ Len(PreEntries) <= 5) =>
        /\ call.err = ""
        /\ call.requests = <<>>
        /\ session = call.pre

C5_Witness ==
    /\ call.op = "SummarizeHistory"
    /\ Len(PreEntries) = 5
    /\ session.History.Entries = PreEntries

\* C8: in a successful ProcessTurn, a discovered location with a non-empty
\* name is stored under its name; a name that was no key adds exactly one
\* entry, a name that was a key overwrites it and adds none.
C8_LocationMerge ==
    (TurnCall /\ call.err = "" /\ ReplyLocation(call.resp) # NilLocation
       /\ ReplyLocation(call.resp).Name # NoName) =>
        LET loc == ReplyLocation(call.resp)
            before == call.pre.Locations
            after == session.Locations
        IN  /\ loc.Name \in DOMAIN after
            /\ after[loc.Name] = loc
            /\ loc.Name \notin DOMAIN before =>
                  Cardinality(DOMAIN after) = Cardinality(DOMAIN before) + 1
            /\ loc.Name \in DOMAIN before => DOMAIN after = DOMAIN before
            /\ \A k \in DOMAIN before : k # loc.Name => after[k] = before[k]

C8_Witness ==
    /\ TurnCall /\ call.err = ""
    /\ ReplyLocation(call.resp) = HallLoc2
    /\ Hall \in DOMAIN call.pre.Locations
    /\ call.pre.Locations[Hall] # HallLoc2
    /\ session.Locations[Hall] = HallLoc2

C8_WitnessNewKey ==
    /\ TurnCall /\ call.err = ""
    /\ ReplyLocation(call.resp) = CaveLoc
    /\ Cave \notin DOMAIN call.pre.Locations
    /\ Cardinality(DOMAIN session.Locations) = 2

\* a reply with no usable content: no candidate or no part, or a text part
\* that is empty
EmptyReply(resp) ==
    resp.kind = "nocontent" \/ (resp.kind = "text" /\ resp.text = <<>>)

\* C26: an empty reply (no candidates, no parts, or empty text) makes
\* GenerateWorld and ProcessTurn return an error; GenerateWorld creates no
\* session and ProcessTurn leaves the session unchanged.
C26_EmptyReplyIsAnError ==
    /\ (call.op = "GenerateWorld" /\ EmptyReply(call.resp)) =>
          call.err # "" /\ session = call.pre
    /\ (TurnCall /\ EmptyReply(call.resp)) =>
          call.err # "" /\ session = call.pre

\* the turn reply is a text that decodes as one YAML document
ValidTurnReply(resp) == resp.kind = "text" /\ ParsesAsMapping(CleanYAML(resp.text))

\* C29: a failed compaction is not fatal.  When ProcessTurn starts with
\* n > 8 entries and the summarization request fails, the turn prompt is
\* rendered with all n entries and the old summary, and on a valid turn reply
\* the call succeeds with n + 1 entries and the Summary unchanged; a failed
\* SummarizeHistory leaves Entries and Summary as they were.
C29_CompactionFailureIsNotFatal ==
    /\ (TurnCall /\ Len(PreEntries) > 8 /\ call.sumErr # "") =>
          LET n == Len(PreEntries)
              turn == call.requests[Len(call.requests)]
          IN  /\ Len(call.requests) = 2
              /\ call.requests[1].kind = "summarize"
              /\ turn.kind = "turn"
              /\ turn.entries = PreEntries
              /\ turn.summary = call.pre.History.Summary
              /\ session.History.Summary = call.pre.History.Summary
              /\ ValidTurnReply(call.resp) =>
                    /\ call.err = ""
                    /\ Len(session.History.Entries) = n + 1
                    /\ SubSeq(session.History.Entries, 1, n) = PreEntries
                    /\ session.History.Entries[n + 1].PlayerAction = call.action
    /\ (call.op = "SummarizeHistory" /\ call.err # "") =>
          session.History = call.pre.History

\* a turn on 9 entries and a summary, played to success after the
\* summarization request has failed
C29_Witness ==
    /\ TurnCall /\ Len(PreEntries) = 9 /\ call.sumErr # "" /\ call.err = ""
    /\ call.pre.History.Summary = <<Word("s0")>>
    /\ session.History.Summary = <<Word("s0")>>
    /\ Len(session.History.Entries) = 10
    /\ call.requests[2].entries = PreEntries

\* the fields of the document a turn reply carries
ReplyFields(resp) == DocFields(CleanYAML(resp.text))

\* C30: a successful ProcessTurn replaces session.State by the state parsed
\* from the reply, a field the reply leaves out being empty afterwards, and
\* appends exactly one entry at the end of the entries the turn prompt was
\* rendered with: the submitted action, the reply's outcome, status,
\* explanations and changes, and the inventory of the new state; it returns
\* the reply's outcome and status.
C30_TurnAppliesReply ==
    (TurnCall /\ call.err = "") =>
        LET f == ReplyFields(call.resp)
            turn == call.requests[Len(call.requests)]
            n == Len(turn.entries)
        IN  /\ session.State = Field(f, "state", ZeroState)
            /\ Len(session.History.Entries) = n + 1
            /\ SubSeq(session.History.Entries, 1, n) = turn.entries
            /\ session.History.Entries[n + 1] =
                  HistoryEntry(call.action, Field(f, "outcome", ""),
                               Field(f, "status", ""),
                               Field(f, "explanations", <<>>),
                               Field(f, "changes", <<>>),
                               session.State.Inventory)
            /\ call.outcome = Field(f, "outcome", "")
            /\ call.status = Field(f, "status", "")

\* a turn whose reply carries another state than the session's, explanations
\* and changes
C30_Witness ==
    /\ TurnCall /\ call.err = ""
    /\ call.pre.State = State1 /\ session.State = State2
    /\ State2.Inventory # State1.Inventory
    /\ LET last == session.History.Entries[Len(session.History.Entries)]
       IN  /\ last.PlayerAction = call.action
           /\ last.Outcome = "o2" /\ last.Changes = [health |-> "-10"]
           /\ last.Explanations # <<>>
           /\ last.Inventory = State2.Inventory
    /\ call.outcome = "o2" /\ call.status = "PLAYING"

\* the actions and outcomes of entries, as the summarization prompt lists them
EventsOf(entries) ==
    [i \in 1..Len(entries) |->
        [PlayerAction |-> entries[i].PlayerAction, Outcome |-> entries[i].Outcome]]

\* C31: a successful SummarizeHistory on n > 5 entries sends one summarization
\* request that holds the existing summary and exactly the first n - 3
\* entries, then sets History.Entries to the last 3 entries, unchanged and in
\* their order, and History.Summary to the trimmed reply text.
C31_SummarizeFoldsPrefix ==
    (call.op = "SummarizeHistory" /\ call.err = "" /\ Len(PreEntries) > 5) =>
        LET n == Len(PreEntries)
        IN  /\ Len(call.requests) = 1
            /\ call.requests[1].kind = "summarize"
            /\ call.requests[1].summary = call.pre.History.Summary
            /\ call.requests[1].events = EventsOf(SubSeq(PreEntries, 1, n - 3))
            /\ session.History.Entries = SubSeq(PreEntries, n - 2, n)
            /\ session.History.Summary = TrimSpaceTok(call.resp.text)

\* six entries and an earlier summary, folded into the reply's text
C31_Witness ==
    /\ call.op = "SummarizeHistory" /\ call.err = ""
    /\ Len(PreEntries) = 6
    /\ call.pre.History.Summary = <<Word("s0")>>
    /\ call.resp.text = <<Tok(WS), Word("s1"), Tok(WS)>>
    /\ session.History.Summary = <<Word("s1")>>
    /\ Len(session.History.Entries) = 3
    /\ Len(call.requests[1].events) = 3

\* a summarization succeeded in this step, and the number of entries its
\* request folded into the summary
SummarizedNow ==
    /\ call'.requests # <<>>
    /\ call'.requests[1].kind = "summarize"
    /\ IF call'.op = "ProcessTurn" THEN call'.sumErr = "" ELSE call'.err = ""

FoldedNow == IF SummarizedNow THEN Len(call'.requests[1].events) ELSE 0

\* C32: every resolved turn is represented exactly once.  A call of
\* ProcessTurn or SummarizeHistory removes from History.Entries exactly the
\* entries that a successful summarization of that call folded into the
\* summary, a prefix of the entries, keeps the others in their order, and
\* appends one entry when, and only when, the turn succeeded.
C32_TurnRepresentedOnce ==
    [][(calls' = calls + 1 /\ call'.op \in {"ProcessTurn", "SummarizeHistory"}) =>
          LET old == session.History.Entries
              new == session'.History.Entries
              k == FoldedNow
              kept == SubSeq(old, k + 1, Len(old))
          IN  /\ k <= Len(old)
              /\ SummarizedNow =>
                    call'.requests[1].events = EventsOf(SubSeq(old, 1, k))
              /\ ~SummarizedNow => session'.History.Summary = session.History.Summary
              /\ IF call'.op = "ProcessTurn" /\ call'.err = ""
                 THEN /\ Len(new) = Len(kept) + 1
                      /\ SubSeq(new, 1, Len(kept)) = kept
                      /\ new[Len(new)].PlayerAction = call'.action
                 ELSE new = kept]_vars

\* a turn that folded six of nine entries and was appended to the other three
C32_Witness ==
    /\ TurnCall /\ call.err = "" /\ call.sumErr = ""
    /\ Len(PreEntries) = 9
    /\ Len(call.requests[1].events) = 6
    /\ Len(session.History.Entries) = 4
    /\ session.History.Entries[1] = PreEntries[7]
    /\ session.History.Entries[4].PlayerAction = call.action

\* C33: after a successful GenerateWorld and after a successful ProcessTurn,
\* a non-empty session.State.CurrentLocation is a key of session.Locations.
C33_CurrentLocationIsKnown ==
    (call.op \in {"GenerateWorld", "ProcessTurn"} /\ call.err = ""
       /\ session.State.CurrentLocation # NoName) =>
        session.State.CurrentLocation \in DOMAIN session.Locations

\* C34: a successful GenerateWorld returns a new session whose Locations
\* holds the reply's initial location under its name if that name is not
\* empty and is empty otherwise, and whose history has no entries and an
\* empty summary.
C34_NewSessionLocations ==
    (call.op = "GenerateWorld" /\ call.err = "") =>
        LET loc == Field(ReplyFields(call.resp), "initial_location", ZeroLocation)
        IN  /\ loc.Name # NoName =>
                  /\ DOMAIN session.Locations = {loc.Name}
                  /\ session.Locations[loc.Name] = loc
            /\ loc.Name = NoName => DOMAIN session.Locations = {}
            /\ session.History.Entries = <<>>
            /\ session.History.Summary = <<>>

\* a world generated while a game of nine turns was in memory: the new
\* session has the hall and no history
C34_Witness ==
    /\ call.op = "GenerateWorld" /\ call.err = ""
    /\ Len(PreEntries) = 9
    /\ DOMAIN session.Locations = {Hall}
    /\ session.Locations[Hall] = HallLoc
    /\ session.History = ZeroHistory

\* C35: a successful ProcessTurn leaves every entry of Locations other than
\* the one named by the reply's discovered location as it was, removes no key,
\* leaves Locations unchanged when the reply has no discovered location or one
\* with an empty name, and leaves session.World unchanged.
C35_LocationsChangeOnlyByDiscovery ==
    (TurnCall /\ call.err = "") =>
        LET loc == ReplyLocation(call.resp)
            before == call.pre.Locations
            after == session.Locations
            named == loc # NilLocation /\ loc.Name # NoName
        IN  /\ DOMAIN before \subseteq DOMAIN after
            /\ \A k \in DOMAIN before :
                  (~named \/ k # loc.Name) => after[k] = before[k]
            /\ ~named => after = before
            /\ named => DOMAIN after = DOMAIN before \cup {loc.Name}
            /\ session.World = call.pre.World

\* the cave is discovered in a game that knows the hall: the hall stays
C35_Witness ==
    /\ TurnCall /\ call.err = ""
    /\ ReplyLocation(call.resp) = CaveLoc
    /\ DOMAIN call.pre.Locations = {Hall}
    /\ DOMAIN session.Locations = {Hall, Cave}
    /\ session.Locations[Hall] = call.pre.Locations[Hall]
    /\ session.World = World1

\* the turn prompts among the requests of the last call
TurnPrompts == {i \in DOMAIN call.requests : call.requests[i].kind = "turn"}

\* C37: bounded history.  A history of at most 9 entries, as every history
\* grown from the empty one is while summarizations succeed, has at most 9
\* entries after every call in which no summarization failed, and every turn
\* prompt sent holds at most 8 entries.
C37_HistoryBounded ==
    (call.op # "none" /\ Len(PreEntries) <= 9 /\ call.sumErr = ""
       /\ (call.op = "SummarizeHistory" => call.err = "")) =>
        /\ Len(session.History.Entries) <= 9
        /\ \A i \in TurnPrompts : Len(call.requests[i].entries) <= 8

\* the longest case: a turn on 8 entries is played without compaction
C37_Witness ==
    /\ TurnCall /\ call.err = ""
    /\ Len(PreEntries) = 8
    /\ Len(call.requests) = 1
    /\ Len(call.requests[1].entries) = 8
    /\ Len(session.History.Entries) = 9

\* C38: a failed ProcessTurn changes neither session.State nor
\* session.Locations nor session.World, whatever the length of the history
\* and whichever step failed; session.History differs after a failed call
\* only if a summarization succeeded earlier in that call.
C38_FailedTurnFrame ==
    (TurnCall /\ call.err # "") =>
        /\ session.State = call.pre.State
        /\ session.Locations = call.pre.Locations
        /\ session.World = call.pre.World
        /\ session.History # call.pre.History =>
              /\ Len(PreEntries) > CompactThreshold
              /\ Len(call.requests) = 2
              /\ call.requests[1].kind = "summarize"
              /\ call.sumErr = ""

\* a turn that failed after its compaction had succeeded
C38_Witness ==
    /\ TurnCall /\ call.err # "" /\ call.sumErr = ""
    /\ Len(PreEntries) = 9
    /\ session.History # call.pre.History
    /\ Len(session.History.Entries) = 3
    /\ session.State = State1 /\ DOMAIN session.Locations = {Hall}

-----------------------------------------------------------------------------
(* Claims about the store, checked under SpecStore *)

\* C6: LoadSession(name) after Save(name) returns a session equal to the saved
\* one in World, State, History and Locations; marshalling a session to one
\* document and parsing it back gives the session back.
C6_SaveLoadRoundTrip ==
    /\ (io.op = "Load" /\ io.name \in DOMAIN saved) =>
          /\ io.err = ""
          /\ loaded = saved[io.name]
    /\ \A s \in StoreSessions : UnmarshalSession(MarshalSession(s)) = s

\* the version a save's marker states: "" when no marker can be read
MarkerVersion(d, name) ==
    IF name \notin DOMAIN d THEN ""
    ELSE IF d[name].version = NoFile \/ d[name].version.kind # "map" THEN ""
    ELSE Field(d[name].version.fields, "version", "")

HasAllDocuments(d, name) ==
    /\ name \in DOMAIN d
    /\ d[name].world.kind = "map"
    /\ d[name].state.kind = "map"
    /\ d[name].history.kind = "map"

\* C7: LoadSession returns an error and no session whenever the version marker
\* is absent or states another version than the supported one, also when the
\* world, state and history documents are all there.
C7_VersionGate ==
    (io.op = "Load" /\ MarkerVersion(disk, io.name) # "1") =>
        /\ io.err # ""
        /\ loaded = NilSession

C7_Witness ==
    /\ io.op = "Load"
    /\ HasAllDocuments(disk, io.name)
    /\ MarkerVersion(disk, io.name) = "0"
    /\ io.err = "incompatible save version"
    /\ loaded = NilSession

C7_WitnessNoMarker ==
    /\ io.op = "Load"
    /\ HasAllDocuments(disk, io.name)
    /\ disk[io.name].version = NoFile
    /\ io.err # ""

\* the names ListSessions returned
Listed == {io.list[i] : i \in DOMAIN io.list}

\* C27: ListSessions returns exactly the names of the subdirectories of the
\* save directory whose version marker is valid for the supported version, so
\* every listed name passes the version gate of LoadSession.
C27_ListedNamesPassVersionGate ==
    io.op = "List" =>
        /\ Listed = {n \in DOMAIN disk : VersionError(disk[n]) = ""}
        /\ \A n \in Listed :
              LoadSession(disk, n).err
                 \notin {"could not read version info", "yaml",
                         "incompatible save version"}

\* C39: a save replaces an earlier save of the same name: LoadSession(name)
\* returns Locations equal to those of the session most recently saved under
\* the name, with no location of an earlier save among them.
C39_SaveReplacesEarlierSave ==
    (io.op = "Load" /\ io.name \in DOMAIN saved /\ io.err = "") =>
        loaded.Locations = saved[io.name].Locations

-----------------------------------------------------------------------------
(* Claims about the controller, checked under SpecTui *)

TurnsInFlight == {id \in DOMAIN tasks : tasks[id].kind = "processTurn"}

\* C2: at no time are two process_turn tasks outstanding: a submission made
\* in Playing while a turn is outstanding dispatches no second one.
C2_OneTurnInFlight == Cardinality(TurnsInFlight) <= 1

\* the event loop handles an event in this step: a key or a message
HandlesEvent ==
    \/ m' # m
    \/ keys' # keys
    \/ msgs # <<>> /\ msgs' = Tail(msgs)

\* C3: the sessions are written only while the controller handles an event:
\* a step of an outstanding command, taken outside the event loop, leaves
\* every field of every session as it is.
C3_SessionWrittenOnlyInEventLoop ==
    [][~HandlesEvent => \A ref \in DOMAIN heap \cap DOMAIN heap' : heap'[ref] = heap[ref]]_vars

KeyEnter_InputHint == Tui_KeyEnter_InputHint \/ LT_KeyEnter_InputHint

KeyEnter_Playing == Tui_KeyEnter_Playing \/ LT_KeyEnter_Playing

\* the directives of the specification, by state
ValidDirective(state, t) ==
    IF state = stateInputHint THEN HasPrefix(t, CmdLoad) \/ t = CmdQuit
    ELSE t = CmdQuit \/ t = CmdRestart \/ HasPrefix(t, CmdSaveSp)

\* the submitted line is a '/'-input that is no directive of the state, and
\* no turn is pending that would have the submission ignored
Unrecognized ==
    /\ m.state \in {stateInputHint, statePlaying}
    /\ ~m.loadingTurn
    /\ HasPrefix(TrimSpace(m.input), Slash)
    /\ ~ValidDirective(m.state, TrimSpace(m.input))

\* the message the rejected line is answered with
RejectionShown ==
    IF m.state = stateInputHint THEN m'.inputErr = "unrecognized command"
    ELSE /\ Len(m'.history) = Len(m.history) + 1
         /\ m'.history[Len(m'.history)].Text.k
               \in {"Unrecognized command", "Usage: /save <name>"}

\* C9: Enter on a '/'-input that is no directive of the current state is
\* answered with a message, keeps the state, dispatches no command and
\* leaves the session as it is.
C9_UnrecognizedRejected ==
    [][(KeyEnter_InputHint \/ KeyEnter_Playing) /\ Unrecognized
          => /\ RejectionShown
             /\ m'.state = m.state
             /\ tasks' = tasks
             /\ m'.session = m.session
             /\ heap' = heap]_vars

\* C10: Enter in the hint state on an empty or white-space input moves to
\* Loading and dispatches exactly one generateWorld command, with the hint
\* "random", as Enter on the input "random" does.
C10_EmptyHintIsRandom ==
    [][KeyEnter_InputHint /\ TrimSpace(m.input) \in {<<>>, Random}
          => /\ m'.state = stateLoading
             /\ DOMAIN tasks' = DOMAIN tasks \cup {nextTask'}
             /\ nextTask' \notin DOMAIN tasks
             /\ tasks'[nextTask'] = generateWorld(Random)
             /\ \A id \in DOMAIN tasks : tasks'[id] = tasks[id]
             /\ m'.session = m.session
             /\ <<heap', msgs', disk'>> = <<heap, msgs, disk>>]_vars

\* a white-space hint was submitted: the input is still in the text area
C10_Witness ==
    /\ m.state = stateLoading
    /\ m.input = Blank
    /\ \E id \in DOMAIN tasks : tasks[id] = generateWorld(Random)

\* C11: Enter in Playing on the input "/save " (no name) is answered with a
\* usage line in the display log: nothing is written to the save directory,
\* no processTurn is dispatched and the state stays Playing.
C11_SaveWithoutNameIsUsageError ==
    [][KeyEnter_Playing /\ ~m.loadingTurn /\ m.input = CmdSaveSp
          => /\ Len(m'.history) = Len(m.history) + 1
             /\ m'.history[Len(m'.history)].Text.k = "Usage: /save <name>"
             /\ disk' = disk
             /\ tasks' = tasks
             /\ m'.state = statePlaying]_vars

On_worldGeneratedMsg == Tui_worldGeneratedMsg \/ LT_worldGeneratedMsg

\* the session is the one GenerateWorld builds from a valid reply: the
\* reply's world, and its initial location under its name
BuiltFromReply(s) ==
    \E resp \in CtlWorldReplies :
        /\ GenerateWorld(resp).err = ""
        /\ LET d == UnmarshalWorldData(CleanYAML(resp.text))
           IN  /\ s.World = d.World
               /\ d.InitialLocation.Name \in DOMAIN s.Locations
               /\ s.Locations[d.InitialLocation.Name] = d.InitialLocation

\* the save directory holds a save of session s under name: LoadSession
\* passes the version gate and returns the world, the state, the history and
\* every location of s
PersistedUnder(d, name, s) ==
    LET r == LoadSession(d, name)
    IN  /\ r.err = ""
        /\ r.session.World = s.World
        /\ r.session.State = s.State
        /\ r.session.History = s.History
        /\ \A n \in DOMAIN s.Locations :
              n \in DOMAIN r.session.Locations /\ r.session.Locations[n] = s.Locations[n]

On_turnProcessedMsg == Tui_turnProcessedMsg \/ LT_turnProcessedMsg

\* the outcome and the state of a valid turn reply
ReplyOf(outcome, state) ==
    \E resp \in CtlTurnReplies :
        /\ PT_Decode(resp).err = ""
        /\ PT_Decode(resp).result.Outcome = outcome
        /\ PT_Decode(resp).result.State = state

\* C13: when a turn completes successfully, the display log gains the
\* outcome, session.State is the state of the reply, and the save under the
\* world's short name passes the version gate and loads as a session equal
\* to the session in memory.
C13_TurnCompletedIsSaved ==
    [][On_turnProcessedMsg /\ Head(msgs).err = "" /\ m.session # NilRef
          => LET s == heap'[m'.session]
             IN  /\ Len(m'.history) > Len(m.history)
                 /\ m'.history[Len(m.history) + 1] = OutcomeEntry(Head(msgs).outcome)
                 /\ ReplyOf(Head(msgs).outcome, s.State)
                 /\ LoadSession(disk', s.World.ShortName).err = ""
                 /\ LoadSession(disk', s.World.ShortName).session = s]_vars

\* C14: a failed completion, of generateWorld (errMsg) or of processTurn
\* (turnProcessedMsg with an error), sets the state to stateError and records
\* the error; it appends nothing to the display log and saves nothing.
C14_FailedCompletionEntersError ==
    [][(On_errMsg \/ (On_turnProcessedMsg /\ Head(msgs).err # ""))
          => /\ m'.state = stateError
             /\ m'.err = Head(msgs).err
             /\ m'.err # ""
             /\ m'.history = m.history
             /\ disk' = disk
             /\ heap' = heap]_vars

\* a turn has failed during play: the echo is the last line of the log
C14_Witness ==
    /\ m.state = stateError
    /\ m.err = "transport"
    /\ m.session # NilRef
    /\ m.history # <<>>
    /\ m.history[Len(m.history)] = UserEntry(Look)
    /\ msgs = <<>> /\ tasks = <<>>

\* the number of action echoes and of outcomes among the first n log entries
Echoes(log, n) == Cardinality({i \in 1..n : log[i].IsUser})
Outcomes(log, n) == Cardinality({i \in 1..n : log[i].Text.k = "outcome"})

\* C15: in the display log every outcome comes after the echo of its action:
\* at every point of the log there are at least as many action echoes before
\* it as outcomes, whatever the order in which the completions arrive.
C15_EchoPrecedesOutcome ==
    \A n \in 1..Len(m.history) : Outcomes(m.history, n) <= Echoes(m.history, n)

\* C16: once the controller is in Error, no event handled by Update (a key,
\* a late completion message) takes it to another state, changes which
\* session the model holds, writes a session or writes a save.
C16_ErrorIsTerminal ==
    [][HandlesEvent /\ m.state = stateError
          => /\ m'.state = stateError
             /\ m'.session = m.session
             /\ heap' = heap
             /\ disk' = disk]_vars

KeyEnter_Quitting == Tui_KeyEnter_Quitting

\* the handler returned tea.Quit: a QuitMsg joins the queue
QuitsNow == msgs' = Append(msgs, QuitMsg)

\* Enter on "/cancel" in the quit confirmation: back to Playing, nothing else
CancelKeepsGame ==
    /\ m'.state = statePlaying
    /\ m'.session = m.session /\ heap' = heap
    /\ m'.history = m.history
    /\ msgs' = msgs /\ disk' = disk

\* C17 as stated: in the quit confirmation, Enter on a save name saves the
\* session under that name and quits, Enter on empty input quits and writes
\* no save, and "/cancel" returns to Playing with the session and the log
\* unchanged and without quitting.
C17_QuitConfirm ==
    [][KeyEnter_Quitting
          => LET name == TrimSpace(m.input)
             IN  IF name = CmdCancel THEN CancelKeepsGame
                 ELSE IF name = <<>> THEN QuitsNow /\ disk' = disk
                 ELSE QuitsNow /\ PersistedUnder(disk', name, heap[m.session])]_vars

\* C17 amended: as stated, except that a save name whose Save fails moves
\* the controller to Error with the error recorded and does not quit.
C17_QuitConfirmUnlessSaveFails ==
    [][KeyEnter_Quitting
          => LET name == TrimSpace(m.input)
             IN  IF name = CmdCancel THEN CancelKeepsGame
                 ELSE IF name = <<>> THEN QuitsNow /\ disk' = disk
                 ELSE \/ QuitsNow /\ PersistedUnder(disk', name, heap[m.session])
                                  /\ m'.state = stateQuitting /\ heap' = heap
                      \/ /\ m'.state = stateError /\ m'.err # "" /\ msgs' = msgs
                         /\ heap' = heap]_vars

\* the program has quit after a played game was saved under a chosen name
C17_Witness ==
    /\ rev = RevQuitConfirm /\ run = "quit"
    /\ m.state = stateQuitting /\ m.session # NilRef
    /\ Len(m.history) > 0 /\ m.history[Len(m.history)].Text.k = "outcome"
    /\ PersistedUnder(disk, Manual, heap[m.session])
    /\ LoadSession(disk, Manual).session.History # SessA.History

\* the line submitted in HintEntry is "/load <name>", and what LoadSession
\* returns for that name
IsLoad == HasPrefix(TrimSpace(m.input), CmdLoad)
LoadResult == LoadSession(disk, TrimPrefix(TrimSpace(m.input), CmdLoad))

\* C18: a "/load <name>" submitted in HintEntry whose load fails shows an
\* inline error and leaves the controller in HintEntry with no session.
C18_FailedLoadStaysInHintEntry ==
    [][KeyEnter_InputHint /\ IsLoad /\ LoadResult.err # ""
          => /\ m'.state = stateInputHint
             /\ m'.session = NilRef
             /\ m'.inputErr # ""]_vars

\* the log entries that are not side-effect entries, in order
WithoutEffects(log) == SelectSeq(log, LAMBDA e : ~e.IsSideEffect)

\* log is the action followed by the outcome of every entry, in order
ActionThenOutcome(log, entries) ==
    /\ Len(log) = 2 * Len(entries)
    /\ \A i \in 1..Len(entries) :
          /\ log[2 * i - 1] = UserEntry(entries[i].PlayerAction)
          /\ log[2 * i] = OutcomeEntry(entries[i].Outcome)

\* the controller is in Playing with the loaded session
PlaysLoaded ==
    /\ m'.state = statePlaying
    /\ m'.session # NilRef /\ m'.session \notin DOMAIN heap
    /\ heap'[m'.session] = LoadResult.session
    /\ m'.history # <<>> /\ m'.history[1].Text.k = "opening"
    /\ m'.history[1].Text.location = LoadResult.session.State.CurrentLocation

LogOfGame(log, s) ==
    \A i \in 1..Len(log) :
        log[i].Text.k = "outcome"
           => \E j \in 1..Len(s.History.Entries) :
                 s.History.Entries[j].Outcome = log[i].Text.outcome

\* C20: "/restart" submitted in Playing leaves the controller in HintEntry
\* with no session and an empty log and writes no save, and from then on the
\* log of the game being played shows no outcome of a discarded game.
C20_RestartDiscardsGame ==
    [][/\ KeyEnter_Playing /\ ~m.loadingTurn /\ TrimSpace(m.input) = CmdRestart
             => /\ m'.state = stateInputHint
                /\ m'.session = NilRef
                /\ m'.history = <<>>
                /\ disk' = disk
       /\ m'.session # NilRef => LogOfGame(m'.history, heap'[m'.session])]_vars

\* C21: Enter on "/quit" in Playing moves the controller to the quit
\* confirmation and does not end the program: no quit is requested by the
\* step and the event loop keeps running.
C21_QuitAsksForConfirmation ==
    [][KeyEnter_Playing /\ ~m.loadingTurn /\ TrimSpace(m.input) = CmdQuit
          => /\ m'.state = stateQuitting
             /\ msgs' = msgs
             /\ run' = "running"]_vars

\* the line submitted in Playing is "/save <name>", and the name
IsSave == HasPrefix(TrimSpace(m.input), CmdSaveSp)
SaveName == TrimPrefix(TrimSpace(m.input), CmdSaveSp)

\* C22: Enter on "/save <name>" in Playing keeps the controller in Playing
\* with the same session, writes no field of any session, and appends one
\* line to the display log: either the confirmation, and then the session
\* is saved under the name, or the report of the failure.
C22_SaveKeepsPlaying ==
    [][KeyEnter_Playing /\ ~m.loadingTurn /\ IsSave
          => /\ m'.state = statePlaying
             /\ m'.session = m.session /\ m.session # NilRef
             /\ heap' = heap
             /\ tasks' = tasks /\ msgs' = msgs /\ run' = "running"
             /\ Len(m'.history) = Len(m.history) + 1
             /\ SubSeq(m'.history, 1, Len(m.history)) = m.history
             /\ LET note == m'.history[Len(m'.history)].Text
                IN  \/ /\ note = [k |-> "Game saved as", name |-> SaveName]
                       /\ PersistedUnder(disk', SaveName, heap[m.session])
                    \/ note = [k |-> "Failed to save", name |-> SaveName]]_vars

\* a game with a turn played since it was loaded has just been saved as "a"
C22_Witness ==
    /\ m.state = statePlaying /\ m.session # NilRef
    /\ Len(m.history) >= 2
    /\ m.history[Len(m.history)].Text = [k |-> "Game saved as", name |-> Manual]
    /\ m.history[Len(m.history) - 1].Text.k = "outcome"
    /\ Len(heap[m.session].History.Entries) > Len(SavedGame.History.Entries)
    /\ PersistedUnder(disk, Manual, heap[m.session])

KeyCtrlC == Tui_KeyCtrlC \/ LT_KeyCtrlC

\* the generate_world commands that have not delivered their message yet
GenerationsInFlight == {id \in DOMAIN tasks : tasks[id].kind = "generateWorld"}

\* the message at the head of the queue is the completion of a generation
\* or the request to quit
GenerationOrQuitArrives ==
    /\ msgs # <<>> /\ msgs' = Tail(msgs)
    /\ Head(msgs).type \in {"worldGeneratedMsg", "errMsg", "QuitMsg"}

\* C23: in Loading, Enter and typed keys change neither the state nor the
\* session and dispatch nothing; the only events with an effect are the quit
\* key and the completion of the generation; and at most one generate_world
\* is outstanding at any time.
C23_LoadingAcceptsNoInput ==
    [][/\ m.state = stateLoading /\ Key_Ignored
             => /\ m'.state = stateLoading /\ m'.session = m.session
                /\ heap' = heap /\ tasks' = tasks /\ msgs' = msgs /\ disk' = disk
       /\ m.state = stateLoading /\ HandlesEvent
             => Key_Ignored \/ KeyCtrlC \/ GenerationOrQuitArrives
       /\ Cardinality(GenerationsInFlight) <= 1]_vars

\* the step shows an error to the user: the Error state with the error
\* recorded, an inline error, or a new log line that reports the failure
ErrorShown ==
    \/ m'.state = stateError /\ m'.err # ""
    \/ m'.inputErr # ""
    \/ /\ Len(m'.history) = Len(m.history) + 1
       /\ m'.history[Len(m'.history)].Text.k = "Failed to save"

\* the names the handler of a successful completion saves the session under
AutosaveNames(s) ==
    IF rev = RevQuitConfirm THEN {Current, AutosaveName(s)} ELSE {AutosaveName(s)}

\* a successful completion is handled and the handler returns
CompletionSaved ==
    /\ On_worldGeneratedMsg \/ (On_turnProcessedMsg /\ Head(msgs).err = "")
    /\ run' = "running"

\* C28: every failed persistence operation is shown to the user: when a
\* /save, the save of the quit confirmation, or an autosave after a world
\* generation or after a turn leaves no save of the session under its name,
\* and when a /load fails, the step shows an error.
C28_PersistenceErrorsAreShown ==
    [][/\ (KeyEnter_Playing /\ ~m.loadingTurn /\ IsSave /\ m.session # NilRef
             /\ ~PersistedUnder(disk', SaveName, heap[m.session])) => ErrorShown
       /\ (KeyEnter_Quitting /\ TrimSpace(m.input) \notin {CmdCancel, <<>>}
             /\ m.session # NilRef
             /\ ~PersistedUnder(disk', TrimSpace(m.input), heap[m.session]))
            => ErrorShown
       /\ (KeyEnter_InputHint /\ IsLoad /\ LoadResult.err # "") => ErrorShown
       /\ CompletionSaved =>
            \A name \in AutosaveNames(heap'[m'.session]) :
                ~PersistedUnder(disk', name, heap'[m'.session]) => ErrorShown]_vars

\* the saves whose name starts with prefix, in listing order
Matches(prefix) ==
    SelectSeq(ListSessions(disk), LAMBDA n : HasPrefix(n, prefix))

\* Tab is pressed in HintEntry on an input that starts with "/load "
TabOnLoad ==
    LT_KeyTab /\ m.state = stateInputHint /\ HasPrefix(m.input, CmdLoad)

\* C36: Tab on "/load <prefix>" in HintEntry.  The first Tab after any other
\* key takes the prefix from the input and shows the first of the n saves
\* that start with it; every further Tab in succession shows the next of
\* those n saves, back to the first after the last; with no match the input
\* stays as it is.
C36_TabCyclesThroughMatches ==
    [][TabOnLoad =>
          LET first == m.lastTabIdx = -1
              prefix == IF first THEN TrimPrefix(m.input, CmdLoad) ELSE m.lastSearch
              n == Len(Matches(prefix))
          IN  IF n = 0 THEN m'.input = m.input
              ELSE /\ m'.lastTabIdx = (m.lastTabIdx + 1) % n
                   /\ m'.input = CmdLoad \o Matches(prefix)[m'.lastTabIdx + 1]]_vars

\* the action echoed last in a display log, NoName if there is none
LastEcho(log) ==
    LET echoes == SelectSeq(log, LAMBDA e : e.IsUser)
    IN  IF echoes = <<>> THEN NoName ELSE echoes[Len(echoes)].Text.action

\* the session the controller holds is the one the completed turn was played
\* on: its last entry is the turn echoed last, with the outcome delivered
HoldsTheTurnsSession ==
    LET entries == heap[m.session].History.Entries
    IN  /\ entries # <<>>
        /\ entries[Len(entries)].PlayerAction = LastEcho(m.history)
        /\ entries[Len(entries)].Outcome = Head(msgs).outcome

\* C40: a turn completion is handled only while the session it was
\* dispatched for is the active session: when the completion is handled the
\* controller's session is present and is the one the turn was played on,
\* and the handler returns.
C40_CompletionMeetsItsSession ==
    [][On_turnProcessedMsg =>
          /\ m.session # NilRef
          /\ Head(msgs).err = "" => HoldsTheTurnsSession
          /\ run' = "running"]_vars

-----------------------------------------------------------------------------
(* Claims about the commands, checked under SpecTui and SpecTuiLive *)

\* the Go scheduler runs every goroutine, and the generator call of a command
\* returns: a command that can take its next step takes it
SpecTuiLive ==
    /\ SpecTui
    /\ WF_vars(Cmd_generateWorld)
    /\ WF_vars(Cmd_processTurn_call)
    /\ WF_vars(Cmd_processTurn_applyRest)

\* the completion messages in a queue
Completions(q) == SelectSeq(q, LAMBDA x : x.type # "QuitMsg")

\* command id ended in this step and the event loop is still there
Returns(id) == id \in DOMAIN tasks /\ id \notin DOMAIN tasks' /\ run' = "running"

\* the message a command of this kind returns
CompletionOf(task, msg) ==
    IF task.kind = "generateWorld" THEN msg.type \in {"worldGeneratedMsg", "errMsg"}
    ELSE msg.type = "turnProcessedMsg"

C25_NoExitWhileCommandOutstanding ==
    [][On_QuitMsg => tasks = <<>>]_vars

====
